---- MODULE Spec2Model ----
(***************************************************************************)
(* Broker-ingestion and strategy-execution pipeline of optionsTrader.      *)
(*                                                                         *)
(* The relational store is modelled as one sequence of rows per Django     *)
(* model.  Every ingestion job is decorated with transaction.atomic, so a  *)
(* job is one action: it folds over the broker's batch and either commits  *)
(* the resulting tables or, when a step raises, leaves the store as it     *)
(* was.  Two runs of a job at the same time are modelled statement by      *)
(* statement.  Identifiers and decimal literals are strings, timestamps    *)
(* are integers.                                                           *)
(***************************************************************************)
EXTENDS Integers, Sequences, FiniteSets, TLC

\* Longest list a broker fetch returns in one call.
MaxBatch == 2

\* Python's None.
None == "None"

\* None where a row is expected (rows are referred to by their position in the table).
NoRow == 0

---------------------------------------------------------------------------
(* accounts/models.py *)

\* BrokerAccount rows present in the store.
BrokerAccounts == {"U1", "U2", "S1"}

\* BrokerAccount.kind
Kind(ba) ==
    CASE ba = "U1" -> "IBKR"
      [] ba = "U2" -> "IBKR-PAPER"
      [] OTHER -> "SIM"

\* BrokerAccount.account_code ("empty for SIM")
AccountCode(ba) == IF Kind(ba) = "SIM" THEN "" ELSE ba

\* BrokerAccount.client: U1 and U2 belong to the same client.
ClientOf(ba) == IF ba = "S1" THEN "client2" ELSE "client1"

---------------------------------------------------------------------------
(* Generic helpers *)

\* All sequences over S of length at most n.
RECURSIVE SeqsUpTo(_, _)
SeqsUpTo(S, n) ==
    IF n = 0 THEN {<<>>}
    ELSE LET shorter == SeqsUpTo(S, n - 1)
         IN shorter \cup {Append(s, x) : s \in {t \in shorter : Len(t) = n - 1}, x \in S}

---------------------------------------------------------------------------
VARIABLES
    instruments,   \* Instrument rows
    contracts,     \* IbkrContract rows
    positions,     \* Position rows
    orders,        \* Order rows
    executions,    \* Execution rows
    optionEvents,  \* OptionEvent rows
    snapshots,     \* AccountSnapshot rows
    runs,          \* StrategyRun rows
    recs,          \* Recommendation rows
    call,          \* the invocation of run_strategy_instance in progress or just ended
    mapped,        \* the last call of map_planned_action_to_execution_intent
    sim,           \* the last run of the simulate_day command
    called,        \* the last call of a function of the strategy library
    workers,       \* the sync runs executing at the same time, each in its transaction
    last           \* the ingestion job that ran last: its input and what it returned

store == <<instruments, contracts, positions, orders, executions, optionEvents, snapshots>>

\* What the strategy engine writes.
engine == <<runs, recs, call>>

\* What the execution mapper, the simulate_day command and the functions of
\* the strategy library report.
pipeline == <<mapped, sim, called>>

vars == <<instruments, contracts, positions, orders, executions, optionEvents, snapshots,
          runs, recs, call, mapped, sim, called, workers, last>>

\* No exception.
NoExc == [type |-> None, message |-> None]

\* No StrategyContext.
NoContext ==
    [ok |-> FALSE, exc |-> NoExc, client |-> None, portfolio |-> None,
     broker_account |-> None, asof_ts |-> 0, cash |-> "0", buying_power |-> "0",
     maintenance_margin |-> "0", used_margin |-> "0", positions |-> <<>>,
     open_orders |-> <<>>, recent_executions |-> <<>>]

\* The frame of run_strategy_instance: its arguments, its locals and where it stands.
\* pc is "idle" before the first call, "returned" or "raised" once a call has ended.
Frame(pc, instance, asof_ts, persist) ==
    [pc |-> pc, instance |-> instance, asof_ts |-> asof_ts,
     persist_recommendations |-> persist,
     run |-> NoRow,              \* the StrategyRun row of this call
     runs_before |-> 0,          \* StrategyRun rows that existed when the call began
     recs_before |-> 0,          \* Recommendation rows that existed when the call began
     debug_log |-> <<>>,         \* run.debug_log, in memory until the run is saved
     context |-> NoContext,
     actions |-> <<>>, effective_actions |-> <<>>,
     next |-> 1,                 \* the action record_recommendations is at
     phase |-> None,             \* what the try block was doing when it raised
     exc |-> NoExc,              \* the exception caught by the except clause
     raised |-> NoExc,           \* the exception the caller gets
     returned |-> <<>>]          \* the list the caller gets

NoCall == Frame("idle", None, 0, FALSE)

\* A key that a params dict does not have.
Absent == "absent"

\* A params dict with none of the keys the pipeline reads.
NoParams ==
    [qty |-> Absent, quantity |-> Absent, limit_price |-> Absent,
     order_type |-> Absent, tif |-> Absent, con_id |-> Absent]

\* No ExecutionIntent.
NoIntent ==
    [broker_account_code |-> None, con_id |-> None, side |-> None, order_type |-> None,
     quantity |-> 0, limit_price |-> None, tif |-> None, action |-> None,
     plan_id |-> None, notes |-> None, raw_params |-> NoParams]

\* The mapper has not been called.
NoMapping ==
    [outcome |-> "none", action |-> None, broker_account |-> None,
     intent |-> NoIntent, exc |-> None]

\* simulate_day has not run.
NoSim ==
    [outcome |-> "none", as_of |-> 0, execute |-> FALSE, exc |-> None,
     created_orders |-> 0, created_execs |-> 0, created_positions |-> 0]

\* No function of the strategy library has been called.
NotCalled == [fn |-> None]

\* The result record of an operation.
Result(op, ba, batch, ok, err, created, other) ==
    [op |-> op, acct |-> ba, batch |-> batch, ok |-> ok, err |-> err,
     created |-> created, other |-> other, total |-> created + other]

\* A sync run executing next to another: the job, its account and what the
\* connector returned, the record it stands at, the rows it has written and
\* not yet committed, its counters, and the exception it ended with.
NoWorker ==
    [pc |-> "idle", job |-> None, ba |-> None, batch |-> <<>>, i |-> 1,
     before |-> <<>>,            \* the committed rows of the table when the run began
     order_obj |-> NoRow, ibkr_con |-> None,
     writes |-> <<>>, created |-> 0, other |-> 0, err |-> None]

\* The processes that run sync jobs at the same time.
Workers == {1, 2}

\* No sync job is running next to another.
NoWorkers == [w \in Workers |-> NoWorker]

Init ==
    /\ instruments = <<>>
    /\ contracts = <<>>
    /\ positions = <<>>
    /\ orders = <<>>
    /\ executions = <<>>
    /\ optionEvents = <<>>
    /\ snapshots = <<>>
    /\ runs = <<>>
    /\ recs = <<>>
    /\ call = NoCall
    /\ mapped = NoMapping
    /\ sim = NoSim
    /\ called = NotCalled
    /\ workers = NoWorkers
    /\ last = Result("init", None, <<>>, TRUE, None, 0, 0)

---------------------------------------------------------------------------
(* trading/brokers/registry.py *)

\* get_broker_client: only the IBKR kinds have a connector.
BrokerSupported(ba) == Kind(ba) \in {"IBKR", "IBKR-PAPER"}

\* The per-record guard every trade sync job starts with: a record labelled
\* with another account's code is passed over, an unlabelled one is kept.
ForAccount(ba, d) ==
    ~ (d.broker_account_code # "" /\ d.broker_account_code # AccountCode(ba))

\* IbkrContract.objects.filter(con_id=...).first()
ResolveContract(cons, con_id) ==
    IF con_id = None THEN None
    ELSE IF \E i \in 1..Len(cons) : cons[i].con_id = con_id THEN con_id
    ELSE None

---------------------------------------------------------------------------
(* trading/ingestion/orders_sync.py *)

\* The broker's view of an order at two moments of its life.
OrderVersions ==
    { [status |-> "Submitted", limit_price |-> "2.50", updated_ts |-> 1],
      [status |-> "Filled", limit_price |-> "2.45", updated_ts |-> 2] }

\* OrderData records a broker may report.
OrderDataSet ==
    { [broker_account_code |-> c, con_id |-> None, ibkr_order_id |-> "o1",
       side |-> "SELL", order_type |-> "LMT", limit_price |-> v.limit_price,
       aux_price |-> None, tif |-> "DAY", status |-> v.status,
       created_ts |-> 1, updated_ts |-> v.updated_ts, raw |-> "ibkr"]
      : c \in {"", "U2"}, v \in OrderVersions }

\* The Order row built from the lookup key and the defaults.
OrderRow(ba, od, ibkr_con) ==
    [client |-> ClientOf(ba), broker_account |-> ba, ibkr_con |-> ibkr_con,
     ibkr_order_id |-> od.ibkr_order_id, side |-> od.side,
     order_type |-> od.order_type, limit_price |-> od.limit_price,
     aux_price |-> od.aux_price, tif |-> od.tif, status |-> od.status,
     raw |-> od.raw, created_ts |-> od.created_ts, updated_ts |-> od.updated_ts]

\* A bug: every sight of an order inserts a row.
UpdateOrCreateOrder_AlwaysCreate(rows, ba, od, ibkr_con) ==
    [ok |-> TRUE, err |-> None, created |-> TRUE,
     rows |-> Append(rows, OrderRow(ba, od, ibkr_con))]

\* Order.objects.update_or_create(broker_account=, ibkr_order_id=, defaults=);
\* side is a column without null=True.
UpdateOrCreateOrder(rows, ba, od, ibkr_con) ==
    LET hit == {i \in 1..Len(rows) : /\ rows[i].broker_account = ba
                                     /\ rows[i].ibkr_order_id = od.ibkr_order_id}
    IN  IF od.side = None
        THEN [ok |-> FALSE, err |-> "IntegrityError", created |-> FALSE, rows |-> rows]
        ELSE IF hit = {}
        THEN [ok |-> TRUE, err |-> None, created |-> TRUE,
              rows |-> Append(rows, OrderRow(ba, od, ibkr_con))]
        ELSE IF Cardinality(hit) > 1
        THEN [ok |-> FALSE, err |-> "MultipleObjectsReturned", created |-> FALSE,
              rows |-> rows]
        ELSE LET i == CHOOSE j \in hit : TRUE
             IN [ok |-> TRUE, err |-> None, created |-> FALSE,
                 rows |-> [rows EXCEPT ![i] = OrderRow(ba, od, ibkr_con)]]

\* The loop of sync_orders_for_broker_account over the fetched orders.
RECURSIVE OrderSyncLoop(_, _, _, _)
OrderSyncLoop(ba, batch, i, acc) ==
    IF i > Len(batch) THEN acc
    ELSE LET od == batch[i]
         IN IF ~ ForAccount(ba, od) THEN OrderSyncLoop(ba, batch, i + 1, acc)
            ELSE LET ibkr_con == ResolveContract(contracts, od.con_id)
                     r == UpdateOrCreateOrder(acc.rows, ba, od, ibkr_con)
                 IN IF ~ r.ok THEN [acc EXCEPT !.ok = FALSE, !.err = r.err]
                    ELSE OrderSyncLoop(ba, batch, i + 1,
                            [acc EXCEPT !.rows = r.rows,
                                        !.created = @ + (IF r.created THEN 1 ELSE 0),
                                        !.other = @ + (IF r.created THEN 0 ELSE 1)])

\* A bug: the rows written before the failure stay.
SyncOrders_PartialCommit(ba, batch) ==
    /\ IF ~ BrokerSupported(ba)
       THEN /\ last' = Result("sync_orders", ba, <<>>, FALSE, "UnsupportedBrokerError", 0, 0)
            /\ UNCHANGED store
       ELSE LET acc == OrderSyncLoop(ba, batch, 1,
                           [ok |-> TRUE, err |-> None, rows |-> orders,
                            created |-> 0, other |-> 0])
            IN /\ orders' = acc.rows
               /\ last' = IF acc.ok
                          THEN Result("sync_orders", ba, batch, TRUE, None, acc.created, acc.other)
                          ELSE Result("sync_orders", ba, batch, FALSE, acc.err, 0, 0)
               /\ UNCHANGED <<instruments, contracts, positions, executions,
                              optionEvents, snapshots>>
    /\ UNCHANGED <<engine, pipeline, workers>>

\* sync_orders_for_broker_account, one transaction.
SyncOrders(ba, batch) ==
    /\ IF ~ BrokerSupported(ba)
       THEN /\ last' = Result("sync_orders", ba, <<>>, FALSE, "UnsupportedBrokerError", 0, 0)
            /\ UNCHANGED store
       ELSE LET acc == OrderSyncLoop(ba, batch, 1,
                           [ok |-> TRUE, err |-> None, rows |-> orders,
                            created |-> 0, other |-> 0])
            IN /\ orders' = IF acc.ok THEN acc.rows ELSE orders
               /\ last' = IF acc.ok
                          THEN Result("sync_orders", ba, batch, TRUE, None, acc.created, acc.other)
                          ELSE Result("sync_orders", ba, batch, FALSE, acc.err, 0, 0)
               /\ UNCHANGED <<instruments, contracts, positions, executions,
                              optionEvents, snapshots>>
    /\ UNCHANGED <<engine, pipeline, workers>>

\* What the connector of an account can return from one fetch: any list of
\* at most MaxBatch records; an account without connector is never fetched from.
Fetched(ba, S) == IF BrokerSupported(ba) THEN SeqsUpTo(S, MaxBatch) ELSE {<<>>}

\* Order sync alone, for every account and every broker output.
NextOrders ==
    \E ba \in BrokerAccounts : \E batch \in Fetched(ba, OrderDataSet) :
        SyncOrders(ba, batch)

SpecOrders == Init /\ [][NextOrders]_vars

---------------------------------------------------------------------------
(* trading/ingestion/executions_sync.py *)

\* ExecutionData records a broker may report: the same fill unlabelled and
\* labelled with account U2, a second fill, and a fill without an order id.
ExecutionDataSet ==
    { [broker_account_code |-> x[1], con_id |-> None, ibkr_exec_id |-> x[2],
       ibkr_order_id |-> x[3], fill_ts |-> 1, qty |-> "1", price |-> "2.50",
       fee |-> "0.65", venue |-> "SMART", raw |-> "ibkr"]
      : x \in { <<"", "e1", "o1">>, <<"U2", "e1", "o1">>,
                <<"", "e2", "o1">>, <<"", "e2", None>> } }

\* A bug: the idempotency check looks only among the fills of the account's own orders.
ExecutionExists_PerAccount(rows, ords, ba, ed) ==
    \E i \in 1..Len(rows) :
        /\ rows[i].ibkr_exec_id = ed.ibkr_exec_id
        /\ ords[rows[i].order].broker_account = ba

\* Execution.objects.filter(ibkr_exec_id=ed.ibkr_exec_id).exists()
ExecutionExists(rows, ords, ba, ed) ==
    \E i \in 1..Len(rows) : rows[i].ibkr_exec_id = ed.ibkr_exec_id

\* A bug: the order is looked up by its broker id among the orders of all accounts.
ResolveOrder_AnyAccount(ords, ba, order_id) ==
    IF order_id = None THEN NoRow
    ELSE LET hit == {i \in 1..Len(ords) : ords[i].ibkr_order_id = order_id}
         IN IF hit = {} THEN NoRow
            ELSE CHOOSE i \in hit : \A j \in hit : ords[i].created_ts >= ords[j].created_ts

\* Order.objects.filter(broker_account=, ibkr_order_id=).order_by("-created_ts").first()
\* The result is the row's position in the Order table, NoRow when there is no
\* such order.  (broker_account, ibkr_order_id) is unique_together, so at most
\* one row matches.
ResolveOrder(ords, ba, order_id) ==
    IF order_id = None THEN NoRow
    ELSE LET hit == {i \in 1..Len(ords) : /\ ords[i].broker_account = ba
                                          /\ ords[i].ibkr_order_id = order_id}
         IN IF hit = {} THEN NoRow
            ELSE CHOOSE i \in hit : \A j \in hit : ords[i].created_ts >= ords[j].created_ts

\* Execution.objects.create(...): ibkr_exec_id is unique=True, fee is a column
\* without null=True.
CreateExecution(rows, ba, ed, order_obj) ==
    IF "fee" \notin DOMAIN ed
       \/ \E i \in 1..Len(rows) : rows[i].ibkr_exec_id = ed.ibkr_exec_id
    THEN [ok |-> FALSE, err |-> "IntegrityError", rows |-> rows]
    ELSE [ok |-> TRUE, err |-> None,
          rows |-> Append(rows,
                     [client |-> ClientOf(ba), order |-> order_obj,
                      ibkr_exec_id |-> ed.ibkr_exec_id, fill_ts |-> ed.fill_ts,
                      qty |-> ed.qty, price |-> ed.price, fee |-> ed.fee,
                      venue |-> ed.venue, raw |-> ed.raw])]

\* The loop of sync_executions_for_broker_account over the fetched fills.
RECURSIVE ExecutionSyncLoop(_, _, _, _)
ExecutionSyncLoop(ba, batch, i, acc) ==
    IF i > Len(batch) THEN acc
    ELSE LET ed == batch[i]
         IN IF ~ ForAccount(ba, ed) THEN ExecutionSyncLoop(ba, batch, i + 1, acc)
            ELSE IF ExecutionExists(acc.rows, orders, ba, ed)
            THEN ExecutionSyncLoop(ba, batch, i + 1, [acc EXCEPT !.other = @ + 1])
            ELSE LET order_obj == ResolveOrder(orders, ba, ed.ibkr_order_id)
                 IN IF order_obj = NoRow
                    THEN ExecutionSyncLoop(ba, batch, i + 1, [acc EXCEPT !.other = @ + 1])
                    ELSE LET r == CreateExecution(acc.rows, ba, ed, order_obj)
                         IN IF ~ r.ok THEN [acc EXCEPT !.ok = FALSE, !.err = r.err]
                            ELSE ExecutionSyncLoop(ba, batch, i + 1,
                                    [acc EXCEPT !.rows = r.rows, !.created = @ + 1])

\* sync_executions_for_broker_account, one transaction.
SyncExecutions(ba, batch) ==
    /\ IF ~ BrokerSupported(ba)
       THEN /\ last' = Result("sync_executions", ba, <<>>, FALSE, "UnsupportedBrokerError", 0, 0)
            /\ UNCHANGED store
       ELSE LET acc == ExecutionSyncLoop(ba, batch, 1,
                           [ok |-> TRUE, err |-> None, rows |-> executions,
                            created |-> 0, other |-> 0])
            IN /\ executions' = IF acc.ok THEN acc.rows ELSE executions
               /\ last' = IF acc.ok
                          THEN Result("sync_executions", ba, batch, TRUE, None, acc.created, acc.other)
                          ELSE Result("sync_executions", ba, batch, FALSE, acc.err, 0, 0)
               /\ UNCHANGED <<instruments, contracts, positions, orders,
                              optionEvents, snapshots>>
    /\ UNCHANGED <<engine, pipeline, workers>>

\* Order sync and execution sync, in any order, for every account.
NextTrade ==
    \/ \E ba \in BrokerAccounts :
            \E batch \in Fetched(ba, {od \in OrderDataSet : od.broker_account_code = ""}) :
                SyncOrders(ba, batch)
    \/ \E ba \in BrokerAccounts : \E batch \in Fetched(ba, ExecutionDataSet) :
            SyncExecutions(ba, batch)

SpecTrade == Init /\ [][NextTrade]_vars

---------------------------------------------------------------------------
(* executions_sync.py, orders_sync.py: fills reported before their order *)

\* Execution sync and order sync for every account; the first order sync of
\* an account comes right after an execution sync of that account that
\* skipped a fill while no fill was stored, that is, for want of its order.
NextLateOrder ==
    \/ \E ba \in BrokerAccounts :
            \E batch \in Fetched(ba, {ed \in ExecutionDataSet : ed.broker_account_code = ""}) :
                SyncExecutions(ba, batch)
    \/ \E ba \in BrokerAccounts :
            /\ \/ \E j \in 1..Len(orders) : orders[j].broker_account = ba
               \/ /\ last.op = "sync_executions" /\ last.acct = ba
                  /\ last.ok /\ last.other > 0 /\ executions = <<>>
            /\ \E od \in {d \in OrderDataSet : d.broker_account_code = ""} :
                  SyncOrders(ba, IF BrokerSupported(ba) THEN <<od>> ELSE <<>>)

SpecLateOrder == Init /\ [][NextLateOrder]_vars

---------------------------------------------------------------------------
(* portfolio/models.py: Portfolio *)

\* Portfolio rows: P1 belongs to U1, PS to S1, P0 to no account; U2 has no portfolio.
Portfolios == {"P1", "PS", "P0"}

\* Portfolio.broker_account (nullable)
PortfolioAccount(p) ==
    CASE p = "P1" -> "U1"
      [] p = "PS" -> "S1"
      [] OTHER -> None

\* broker_account.portfolios.first()
FirstPortfolio(ba) ==
    IF \E p \in Portfolios : PortfolioAccount(p) = ba
    THEN CHOOSE p \in Portfolios : PortfolioAccount(p) = ba
    ELSE None

---------------------------------------------------------------------------
(* trading/ingestion/positions_sync.py *)

\* PositionData records a broker may report: a stock position at two moments,
\* the same contract reported without exchange, and a position without contract id.
PositionDataSet ==
    { [broker_account_code |-> "U1", symbol |-> x[1], exchange |-> x[2],
       asset_type |-> "equity", currency |-> "USD", con_id |-> x[3],
       qty |-> "10", avg_cost |-> "150.25", market_price |-> "170.00",
       market_value |-> "1700.00", asof_ts |-> x[4], raw |-> "ibkr"]
      : x \in { <<"AAPL", "NASDAQ", "265598", 1>>, <<"AAPL", "NASDAQ", "265598", 2>>,
                <<"AAPL", None, "265598", 1>>, <<"MSFT", "NASDAQ", None, 1>> } }

\* Instrument.objects.get_or_create(symbol=, exchange=, asset_type=, currency=)
\* Returns the tables and the instrument's position in the Instrument table.
GetOrCreateInstrument(insts, pd) ==
    LET exchange == IF pd.exchange = None THEN "" ELSE pd.exchange
        row == [symbol |-> pd.symbol, exchange |-> exchange,
                asset_type |-> pd.asset_type, currency |-> pd.currency]
        hit == {i \in 1..Len(insts) : insts[i] = row}
    IN  IF hit = {} THEN [ok |-> TRUE, err |-> None, insts |-> Append(insts, row),
                          instrument |-> Len(insts) + 1]
        ELSE IF Cardinality(hit) > 1
        THEN [ok |-> FALSE, err |-> "MultipleObjectsReturned", insts |-> insts,
              instrument |-> NoRow]
        ELSE [ok |-> TRUE, err |-> None, insts |-> insts,
              instrument |-> CHOOSE i \in hit : TRUE]

\* A bug: an existing contract record is overwritten with the defaults
\* (update_or_create instead of get_or_create).
GetOrCreateContract_UpdateOrCreate(cons, pd, instrument) ==
    IF pd.con_id = None THEN [ok |-> TRUE, err |-> None, cons |-> cons, ibkr_con |-> None]
    ELSE LET hit == {i \in 1..Len(cons) : cons[i].con_id = pd.con_id}
             row == [con_id |-> pd.con_id, instrument |-> instrument,
                     sec_type |-> IF pd.asset_type = "equity" THEN "STK" ELSE "OPT",
                     exchange |-> IF pd.exchange = None THEN "" ELSE pd.exchange,
                     currency |-> pd.currency, metadata |-> pd.raw]
         IN IF hit = {}
            THEN [ok |-> TRUE, err |-> None, ibkr_con |-> pd.con_id, cons |-> Append(cons, row)]
            ELSE [ok |-> TRUE, err |-> None, ibkr_con |-> pd.con_id,
                  cons |-> [i \in 1..Len(cons) |-> IF i \in hit THEN row ELSE cons[i]]]

\* IbkrContract.objects.get_or_create(con_id=, defaults=...) followed by the
\* re-alignment of an existing contract's instrument.
GetOrCreateContract(cons, pd, instrument) ==
    IF pd.con_id = None THEN [ok |-> TRUE, err |-> None, cons |-> cons, ibkr_con |-> None]
    ELSE LET hit == {i \in 1..Len(cons) : cons[i].con_id = pd.con_id}
         IN IF hit = {}
            THEN [ok |-> TRUE, err |-> None, ibkr_con |-> pd.con_id,
                  cons |-> Append(cons,
                      [con_id |-> pd.con_id, instrument |-> instrument,
                       sec_type |-> IF pd.asset_type = "equity" THEN "STK" ELSE "OPT",
                       exchange |-> IF pd.exchange = None THEN "" ELSE pd.exchange,
                       currency |-> pd.currency, metadata |-> pd.raw])]
            ELSE IF Cardinality(hit) > 1
            THEN [ok |-> FALSE, err |-> "MultipleObjectsReturned", cons |-> cons,
                  ibkr_con |-> None]
            ELSE LET i == CHOOSE j \in hit : TRUE
                 IN [ok |-> TRUE, err |-> None, ibkr_con |-> pd.con_id,
                     cons |-> IF cons[i].instrument # instrument
                              THEN [cons EXCEPT ![i].instrument = instrument]
                              ELSE cons]

\* Position.objects.create(...): (broker_account, instrument, asof_ts) is unique
\* (constraint uniq_position_ba_instr_asof).
CreatePosition(rows, ba, portfolio, pd, instrument, ibkr_con) ==
    IF \E i \in 1..Len(rows) : /\ rows[i].broker_account = ba
                               /\ rows[i].instrument = instrument
                               /\ rows[i].asof_ts = pd.asof_ts
    THEN [ok |-> FALSE, err |-> "IntegrityError", rows |-> rows]
    ELSE [ok |-> TRUE, err |-> None,
          rows |-> Append(rows,
                     [client |-> ClientOf(ba), portfolio |-> portfolio,
                      broker_account |-> ba, instrument |-> instrument,
                      ibkr_con |-> ibkr_con, qty |-> pd.qty, avg_cost |-> pd.avg_cost,
                      market_price |-> pd.market_price,
                      market_value |-> pd.market_value, asof_ts |-> pd.asof_ts])]

\* The loop of sync_positions_for_broker_account over the fetched positions.
RECURSIVE PositionSyncLoop(_, _, _, _, _)
PositionSyncLoop(ba, portfolio, batch, i, acc) ==
    IF i > Len(batch) THEN acc
    ELSE LET pd == batch[i]
             ri == GetOrCreateInstrument(acc.insts, pd)
         IN IF ~ ri.ok THEN [acc EXCEPT !.ok = FALSE, !.err = ri.err]
            ELSE LET rc == GetOrCreateContract(acc.cons, pd, ri.instrument)
                 IN IF ~ rc.ok THEN [acc EXCEPT !.ok = FALSE, !.err = rc.err]
                    ELSE LET rp == CreatePosition(acc.rows, ba, portfolio, pd,
                                                  ri.instrument, rc.ibkr_con)
                         IN IF ~ rp.ok THEN [acc EXCEPT !.ok = FALSE, !.err = rp.err]
                            ELSE PositionSyncLoop(ba, portfolio, batch, i + 1,
                                    [acc EXCEPT !.insts = ri.insts, !.cons = rc.cons,
                                                !.rows = rp.rows, !.created = @ + 1])

\* sync_positions_for_broker_account(broker_account, portfolio=None), one transaction.
SyncPositions(ba, portfolio_arg, batch) ==
    /\ LET portfolio == IF portfolio_arg = None THEN FirstPortfolio(ba) ELSE portfolio_arg
       IN  IF portfolio = None
           THEN /\ last' = Result("sync_positions", ba, <<>>, FALSE, "RuntimeError", 0, 0)
                /\ UNCHANGED store
           ELSE IF ~ BrokerSupported(ba)
           THEN /\ last' = Result("sync_positions", ba, <<>>, FALSE, "UnsupportedBrokerError", 0, 0)
                /\ UNCHANGED store
           ELSE LET acc == PositionSyncLoop(ba, portfolio, batch, 1,
                               [ok |-> TRUE, err |-> None, insts |-> instruments,
                                cons |-> contracts, rows |-> positions, created |-> 0])
                IN /\ instruments' = IF acc.ok THEN acc.insts ELSE instruments
                   /\ contracts' = IF acc.ok THEN acc.cons ELSE contracts
                   /\ positions' = IF acc.ok THEN acc.rows ELSE positions
                   /\ last' = IF acc.ok
                              THEN Result("sync_positions", ba, batch, TRUE, None, acc.created, 0)
                              ELSE Result("sync_positions", ba, batch, FALSE, acc.err, 0, 0)
                   /\ UNCHANGED <<orders, executions, optionEvents, snapshots>>
    /\ UNCHANGED <<engine, pipeline, workers>>

\* The portfolio argument of a position sync: left out, or a portfolio of the account.
PortfolioArgs(ba) == {None} \cup {p \in Portfolios : PortfolioAccount(p) = ba}

\* Position sync alone, for every account and every broker output.
NextPositions ==
    \E ba \in BrokerAccounts : \E portfolio \in PortfolioArgs(ba) :
        \E batch \in Fetched(ba, PositionDataSet) :
            SyncPositions(ba, portfolio, batch)

SpecPositions == Init /\ [][NextPositions]_vars

---------------------------------------------------------------------------
(* trading/ingestion/accounts_sync.py *)

\* AccountSnapshotData records a broker may report.
AccountSnapshotDataSet ==
    { [broker_account_code |-> "U1", currency |-> "USD", asof_ts |-> x[1],
       cash |-> x[2], buying_power |-> "300000", maintenance_margin |-> "50000",
       used_margin |-> "10000", extras |-> "ibkr"]
      : x \in { <<1, "100000">>, <<1, "90000">>, <<2, "100000">> } }

\* AccountSnapshot.objects.create(...): (broker_account, asof_ts) is unique
\* (constraint uniq_broker_asof).
CreateSnapshot(rows, ba, data) ==
    IF \E i \in 1..Len(rows) : /\ rows[i].broker_account = ba
                               /\ rows[i].asof_ts = data.asof_ts
    THEN [ok |-> FALSE, err |-> "IntegrityError", rows |-> rows]
    ELSE [ok |-> TRUE, err |-> None,
          rows |-> Append(rows,
                     [client |-> ClientOf(ba), broker_account |-> ba,
                      asof_ts |-> data.asof_ts, currency |-> data.currency,
                      cash |-> data.cash, buying_power |-> data.buying_power,
                      maintenance_margin |-> data.maintenance_margin,
                      used_margin |-> data.used_margin, extras |-> data.extras])]

\* sync_account_snapshot_for_broker_account, one transaction.
SyncAccountSnapshot(ba, batch) ==
    /\ IF ~ BrokerSupported(ba)
       THEN /\ last' = Result("sync_account_snapshot", ba, <<>>, FALSE, "UnsupportedBrokerError", 0, 0)
            /\ UNCHANGED store
       ELSE IF batch = <<>>
       THEN /\ last' = Result("sync_account_snapshot", ba, batch, FALSE, "RuntimeError", 0, 0)
            /\ UNCHANGED store
       ELSE LET r == CreateSnapshot(snapshots, ba, batch[1])
            IN /\ snapshots' = r.rows
               /\ last' = Result("sync_account_snapshot", ba, batch, r.ok, r.err,
                                 IF r.ok THEN 1 ELSE 0, 0)
               /\ UNCHANGED <<instruments, contracts, positions, orders, executions,
                              optionEvents>>
    /\ UNCHANGED <<engine, pipeline, workers>>

\* Account snapshot sync alone, for every account and every broker output.
NextAccounts ==
    \E ba \in BrokerAccounts : \E batch \in Fetched(ba, AccountSnapshotDataSet) :
        SyncAccountSnapshot(ba, batch)

SpecAccounts == Init /\ [][NextAccounts]_vars

---------------------------------------------------------------------------
(* trading/ingestion/option_events_sync.py *)

\* OptionEventData records a broker may report: an assignment, the same
\* assignment with other notes, and the same labelled with account U2.
OptionEventDataSet ==
    { [broker_account_code |-> x[1], con_id |-> x[2], event_type |-> x[3],
       event_ts |-> x[4], qty |-> "1", notes |-> x[5], raw |-> "ibkr"]
      : x \in { <<"", "265598", "assignment", 1, "n1">>,
                <<"", "265598", "assignment", 1, "n2">>,
                <<"U2", "265598", "assignment", 1, "n1">> } }

\* A bug: the notes are part of the de-duplication key.
OptionEventExists_WithNotes(rows, ba, ev, ibkr_con) ==
    \E i \in 1..Len(rows) :
        /\ rows[i].client = ClientOf(ba)
        /\ rows[i].broker_account = ba
        /\ rows[i].ibkr_con = ibkr_con
        /\ rows[i].event_type = ev.event_type
        /\ rows[i].event_ts = ev.event_ts
        /\ rows[i].qty = ev.qty
        /\ rows[i].notes = ev.notes

\* OptionEvent.objects.filter(client=, broker_account=, ibkr_con=, event_type=,
\* event_ts=, qty=).exists()
OptionEventExists(rows, ba, ev, ibkr_con) ==
    \E i \in 1..Len(rows) :
        /\ rows[i].client = ClientOf(ba)
        /\ rows[i].broker_account = ba
        /\ rows[i].ibkr_con = ibkr_con
        /\ rows[i].event_type = ev.event_type
        /\ rows[i].event_ts = ev.event_ts
        /\ rows[i].qty = ev.qty

\* The loop of sync_option_events_for_broker_account over the fetched events.
RECURSIVE OptionEventSyncLoop(_, _, _, _)
OptionEventSyncLoop(ba, batch, i, acc) ==
    IF i > Len(batch) THEN acc
    ELSE LET ev == batch[i]
         IN IF ~ ForAccount(ba, ev) THEN OptionEventSyncLoop(ba, batch, i + 1, acc)
            ELSE LET ibkr_con == ResolveContract(contracts, ev.con_id)
                 IN IF OptionEventExists(acc.rows, ba, ev, ibkr_con)
                    THEN OptionEventSyncLoop(ba, batch, i + 1, [acc EXCEPT !.other = @ + 1])
                    ELSE OptionEventSyncLoop(ba, batch, i + 1,
                            [acc EXCEPT !.created = @ + 1,
                                        !.rows = Append(@,
                                            [client |-> ClientOf(ba), broker_account |-> ba,
                                             ibkr_con |-> ibkr_con,
                                             event_type |-> ev.event_type,
                                             event_ts |-> ev.event_ts, qty |-> ev.qty,
                                             notes |-> ev.notes])])

\* sync_option_events_for_broker_account, one transaction.
SyncOptionEvents(ba, batch) ==
    /\ IF ~ BrokerSupported(ba)
       THEN /\ last' = Result("sync_option_events", ba, <<>>, FALSE, "UnsupportedBrokerError", 0, 0)
            /\ UNCHANGED store
       ELSE LET acc == OptionEventSyncLoop(ba, batch, 1,
                           [ok |-> TRUE, err |-> None, rows |-> optionEvents,
                            created |-> 0, other |-> 0])
            IN /\ optionEvents' = acc.rows
               /\ last' = Result("sync_option_events", ba, batch, TRUE, None, acc.created, acc.other)
               /\ UNCHANGED <<instruments, contracts, positions, orders, executions,
                              snapshots>>
    /\ UNCHANGED <<engine, pipeline, workers>>

\* Option-event sync for every account, with position syncs of the first stock
\* position (which create the contract record) in between.
NextOptions ==
    \/ \E ba \in BrokerAccounts : \E batch \in Fetched(ba, OptionEventDataSet) :
            SyncOptionEvents(ba, batch)
    \/ \E ba \in BrokerAccounts : \E portfolio \in PortfolioArgs(ba) :
            \E batch \in Fetched(ba, {pd \in PositionDataSet :
                                        /\ pd.exchange # None /\ pd.con_id # None
                                        /\ pd.asof_ts = 1}) :
                SyncPositions(ba, portfolio, batch)

SpecOptions == Init /\ [][NextOptions]_vars

---------------------------------------------------------------------------
(* trading/ingestion: the five sync jobs of one account on one store *)

\* The five jobs run for account U1 in any order, each on one record: an
\* order in either version, a fill of that order, the stock position reported
\* with and without its exchange, the assignment event, a snapshot.
NextIngest ==
    \/ \E od \in {d \in OrderDataSet : d.broker_account_code = ""} : SyncOrders("U1", <<od>>)
    \/ \E ed \in {d \in ExecutionDataSet : d.broker_account_code = "" /\ d.ibkr_exec_id = "e1"} :
          SyncExecutions("U1", <<ed>>)
    \/ \E pd \in {d \in PositionDataSet : d.con_id # None /\ d.asof_ts = 1} :
          SyncPositions("U1", None, <<pd>>)
    \/ \E ev \in {d \in OptionEventDataSet : d.broker_account_code = "" /\ d.notes = "n1"} :
          SyncOptionEvents("U1", <<ev>>)
    \/ \E sd \in AccountSnapshotDataSet : SyncAccountSnapshot("U1", <<sd>>)

SpecIngest == Init /\ [][NextIngest]_vars

---------------------------------------------------------------------------
(* executions_sync.py, option_events_sync.py: two runs at the same time *)

\* transaction.atomic makes a run all-or-nothing, it does not keep two runs
\* apart.  Two runs of one job are therefore modelled statement by statement,
\* each in its own transaction at the isolation level READ COMMITTED (the
\* default of Django's database backends): a query sees the committed rows and
\* the rows its own transaction has written; an insert that meets a unique
\* index entry of a transaction still open waits for that transaction to end.

\* The table a job writes.
TableOf(job) == IF job = "sync_executions" THEN executions ELSE optionEvents

\* The rows a query of worker w sees.
Visible(w) == TableOf(workers[w].job) \o workers[w].writes

\* The row OptionEvent.objects.create(...) writes (the model declares no
\* unique constraint).
OptionEventRow(ba, ev, ibkr_con) ==
    [client |-> ClientOf(ba), broker_account |-> ba, ibkr_con |-> ibkr_con,
     event_type |-> ev.event_type, event_ts |-> ev.event_ts, qty |-> ev.qty,
     notes |-> ev.notes]

\* Both workers enter the same job for the same account; the connector
\* returns the same batch to both.
ConcurrentStart(job, ba, batch) ==
    /\ \A w \in Workers : workers[w].pc = "idle"
    /\ workers' = [w \in Workers |->
                     IF BrokerSupported(ba)
                     THEN [NoWorker EXCEPT !.pc = "check", !.job = job, !.ba = ba,
                                           !.batch = batch, !.before = TableOf(job)]
                     ELSE [NoWorker EXCEPT !.pc = "raised", !.job = job, !.ba = ba,
                                           !.before = TableOf(job),
                                           !.err = "UnsupportedBrokerError"]]
    /\ UNCHANGED <<store, engine, pipeline, last>>

\* One turn of the loop up to the insert: the account filter, the existence
\* query and, for a fill, the lookup of its order.
CheckExists(w) ==
    /\ workers[w].pc = "check"
    /\ workers[w].i <= Len(workers[w].batch)
    /\ LET me == workers[w]
           d == me.batch[me.i]
           ibkr_con == ResolveContract(contracts, d.con_id)
           order_obj == IF me.job = "sync_executions"
                        THEN ResolveOrder(orders, me.ba, d.ibkr_order_id) ELSE NoRow
           exists == IF me.job = "sync_executions"
                     THEN ExecutionExists(Visible(w), orders, me.ba, d)
                     ELSE OptionEventExists(Visible(w), me.ba, d, ibkr_con)
       IN workers' = [workers EXCEPT ![w] =
            IF ~ ForAccount(me.ba, d) THEN [me EXCEPT !.i = @ + 1]
            ELSE IF exists THEN [me EXCEPT !.i = @ + 1, !.other = @ + 1]
            ELSE IF me.job = "sync_executions" /\ order_obj = NoRow
            THEN [me EXCEPT !.i = @ + 1, !.other = @ + 1]
            ELSE [me EXCEPT !.pc = "insert", !.order_obj = order_obj,
                            !.ibkr_con = ibkr_con]]
    /\ UNCHANGED <<store, engine, pipeline, last>>

\* The insert of worker w has to wait: another open transaction has written a
\* fill with the same ibkr_exec_id.
MustWait(w) ==
    /\ workers[w].job = "sync_executions"
    /\ \E v \in Workers \ {w} :
          /\ workers[v].pc \in {"check", "insert"}
          /\ \E k \in 1..Len(workers[v].writes) :
                workers[v].writes[k].ibkr_exec_id =
                    workers[w].batch[workers[w].i].ibkr_exec_id

\* Execution.objects.create(...) / OptionEvent.objects.create(...) of worker
\* w.  An IntegrityError leaves the atomic block, which rolls back.
Insert(w) ==
    /\ workers[w].pc = "insert"
    /\ ~ MustWait(w)
    /\ LET me == workers[w]
           d == me.batch[me.i]
           r == CreateExecution(Visible(w), me.ba, d, me.order_obj)
       IN workers' = [workers EXCEPT ![w] =
            IF me.job = "sync_executions"
            THEN IF r.ok
                 THEN [me EXCEPT !.pc = "check", !.i = @ + 1, !.created = @ + 1,
                                 !.writes = Append(@, r.rows[Len(r.rows)])]
                 ELSE [me EXCEPT !.pc = "raised", !.err = r.err, !.writes = <<>>]
            ELSE [me EXCEPT !.pc = "check", !.i = @ + 1, !.created = @ + 1,
                            !.writes = Append(@, OptionEventRow(me.ba, d, me.ibkr_con))]]
    /\ UNCHANGED <<store, engine, pipeline, last>>

\* The loop of worker w is over: the function returns and the atomic block
\* commits what the run has written.
Commit(w) ==
    /\ workers[w].pc = "check"
    /\ workers[w].i > Len(workers[w].batch)
    /\ workers' = [workers EXCEPT ![w] = [@ EXCEPT !.pc = "returned", !.writes = <<>>]]
    /\ IF workers[w].job = "sync_executions"
       THEN /\ executions' = executions \o workers[w].writes
            /\ UNCHANGED optionEvents
       ELSE /\ optionEvents' = optionEvents \o workers[w].writes
            /\ UNCHANGED executions
    /\ UNCHANGED <<instruments, contracts, positions, orders, snapshots,
                   engine, pipeline, last>>

\* Orders are synced first; then two runs of the execution sync or of the
\* option-event sync work through the same batch, interleaved in every way.
NextConcurrent ==
    \/ /\ \A w \in Workers : workers[w].pc = "idle"
       /\ \E ba \in BrokerAccounts :
             \E batch \in Fetched(ba, {od \in OrderDataSet : /\ od.broker_account_code = ""
                                                              /\ od.status = "Submitted"}) :
                SyncOrders(ba, batch)
    \/ \E ba \in BrokerAccounts :
          \/ \E batch \in Fetched(ba, ExecutionDataSet) :
                ConcurrentStart("sync_executions", ba, batch)
          \/ \E batch \in Fetched(ba, OptionEventDataSet) :
                ConcurrentStart("sync_option_events", ba, batch)
    \/ \E w \in Workers : CheckExists(w)
    \/ \E w \in Workers : Insert(w)
    \/ \E w \in Workers : Commit(w)

SpecConcurrent == Init /\ [][NextConcurrent]_vars

---------------------------------------------------------------------------
(* accounts_sync.py: sync_all_ibkr_account_snapshots; the commands
   sync_ibkr_account_snapshots, sync_ibkr_orders, sync_ibkr_option_events *)

\* The batch entry points, the per-account job each one calls, whether it
\* takes IBKR-backed accounts only, and whether it wraps the job in try/except.
BatchEntryPoints ==
    { [name |-> "sync_all_ibkr_account_snapshots", job |-> "sync_account_snapshot",
       ibkr_only |-> TRUE, catches |-> FALSE, option |-> FALSE],
      [name |-> "sync_ibkr_account_snapshots", job |-> "sync_account_snapshot",
       ibkr_only |-> TRUE, catches |-> TRUE, option |-> TRUE],
      [name |-> "sync_ibkr_orders", job |-> "sync_orders",
       ibkr_only |-> FALSE, catches |-> FALSE, option |-> TRUE],
      [name |-> "sync_ibkr_option_events", job |-> "sync_option_events",
       ibkr_only |-> FALSE, catches |-> FALSE, option |-> TRUE] }

\* The queryset of accounts of an entry point, narrowed by --account.
BatchAccounts(entry, account_code) ==
    {ba \in BrokerAccounts :
        /\ entry.ibkr_only => Kind(ba) \in {"IBKR", "IBKR-PAPER"}
        /\ account_code \in {None, ""} \/ AccountCode(ba) = account_code}

\* The tables the batch jobs write.
BatchTables == [orders |-> orders, optionEvents |-> optionEvents, snapshots |-> snapshots]

\* One per-account job inside a batch, as a transaction on the tables: what
\* it returns or raises, and the tables afterwards.
RunJob(job, tables, ba, batch) ==
    IF ~ BrokerSupported(ba)
    THEN [ok |-> FALSE, err |-> "UnsupportedBrokerError", tables |-> tables,
          created |-> 0, other |-> 0]
    ELSE IF job = "sync_orders"
    THEN LET acc == OrderSyncLoop(ba, batch, 1,
                        [ok |-> TRUE, err |-> None, rows |-> tables.orders,
                         created |-> 0, other |-> 0])
         IN [ok |-> acc.ok, err |-> acc.err,
             tables |-> IF acc.ok THEN [tables EXCEPT !.orders = acc.rows] ELSE tables,
             created |-> acc.created, other |-> acc.other]
    ELSE IF job = "sync_option_events"
    THEN LET acc == OptionEventSyncLoop(ba, batch, 1,
                        [ok |-> TRUE, err |-> None, rows |-> tables.optionEvents,
                         created |-> 0, other |-> 0])
         IN [ok |-> TRUE, err |-> None,
             tables |-> [tables EXCEPT !.optionEvents = acc.rows],
             created |-> acc.created, other |-> acc.other]
    ELSE IF batch = <<>>
    THEN [ok |-> FALSE, err |-> "RuntimeError", tables |-> tables,
          created |-> 0, other |-> 0]
    ELSE LET r == CreateSnapshot(tables.snapshots, ba, batch[1])
         IN [ok |-> r.ok, err |-> r.err,
             tables |-> [tables EXCEPT !.snapshots = r.rows],
             created |-> IF r.ok THEN 1 ELSE 0, other |-> 0]

\* The loop `for ba in qs` of an entry point: accounts in the order given,
\* fetched[ba] being what the connector of ba returns.  A job that raises ends
\* the loop unless the entry point catches the exception.
RECURSIVE BatchLoop(_, _, _, _, _)
BatchLoop(entry, order, fetched, i, acc) ==
    IF i > Len(order) \/ acc.raised # None THEN acc
    ELSE LET ba == order[i]
             r == RunJob(entry.job, acc.tables, ba, fetched[ba])
             seen == Append(acc.outcomes, [acct |-> ba, ok |-> r.ok, err |-> r.err])
         IN BatchLoop(entry, order, fetched, i + 1,
               IF r.ok
               THEN [acc EXCEPT !.tables = r.tables, !.outcomes = seen,
                                !.created = @ + r.created, !.other = @ + r.other]
               ELSE IF entry.catches
               THEN [acc EXCEPT !.outcomes = seen]
               ELSE [acc EXCEPT !.outcomes = seen, !.raised = r.err])

\* The orders in which a queryset without order_by can yield the accounts.
AccountOrders(S) ==
    {s \in [1..Cardinality(S) -> S] : \A a, b \in 1..Cardinality(S) : a # b => s[a] # s[b]}

\* One run of a batch entry point.
SyncBatch(entry, account_code, order, fetched) ==
    /\ order \in AccountOrders(BatchAccounts(entry, account_code))
    /\ LET acc == BatchLoop(entry, order, fetched, 1,
                      [tables |-> BatchTables, outcomes |-> <<>>, raised |-> None,
                       created |-> 0, other |-> 0])
       IN /\ orders' = acc.tables.orders
          /\ optionEvents' = acc.tables.optionEvents
          /\ snapshots' = acc.tables.snapshots
          /\ last' = [op |-> entry.name, accounts |-> BatchAccounts(entry, account_code),
                      fetched |-> fetched, outcomes |-> acc.outcomes,
                      raised |-> acc.raised, created |-> acc.created, other |-> acc.other]
    /\ UNCHANGED <<instruments, contracts, positions, executions, engine, pipeline, workers>>

\* What the connectors return to one batch run: for each account of the
\* queryset no record or one record (the same order, option event or snapshot
\* every time); an account without a connector returns nothing.
BatchFetches(entry, accts) ==
    LET S == CASE entry.job = "sync_orders" ->
                     {od \in OrderDataSet : od.broker_account_code = ""
                                            /\ od.status = "Submitted"}
               [] entry.job = "sync_option_events" ->
                     {ev \in OptionEventDataSet : ev.broker_account_code = "" /\ ev.notes = "n1"}
               [] OTHER -> {sd \in AccountSnapshotDataSet :
                               sd.cash = "100000" /\ sd.asof_ts = 1}
    IN {f \in [accts -> SeqsUpTo(S, 1)] :
           \A ba \in accts : ~ BrokerSupported(ba) => f[ba] = <<>>}

\* Batch runs of every entry point, with and without --account.
NextBatch ==
    \E entry \in BatchEntryPoints :
        \E account_code \in (IF entry.option THEN {None, "U2"} ELSE {None}) :
            \E fetched \in BatchFetches(entry, BatchAccounts(entry, account_code)) :
                \E order \in AccountOrders(BatchAccounts(entry, account_code)) :
                    SyncBatch(entry, account_code, order, fetched)

SpecBatch == Init /\ [][NextBatch]_vars

---------------------------------------------------------------------------
(* The sync jobs on broker output with a record the store refuses *)

\* OrderData records with a flaw: the second order comes without side.
FaultyOrderDataSet ==
    { [broker_account_code |-> "", con_id |-> None, ibkr_order_id |-> "o1",
       side |-> "SELL", order_type |-> "LMT", limit_price |-> "2.50",
       aux_price |-> None, tif |-> "DAY", status |-> "Submitted",
       created_ts |-> 1, updated_ts |-> 1, raw |-> "ibkr"],
      [broker_account_code |-> "", con_id |-> None, ibkr_order_id |-> "o2",
       side |-> None, order_type |-> "LMT", limit_price |-> "2.50",
       aux_price |-> None, tif |-> "DAY", status |-> "Submitted",
       created_ts |-> 1, updated_ts |-> 1, raw |-> "ibkr"] }

\* ExecutionData records with a flaw: the second fill comes without fee (its
\* fee is None, written as a record without that field).
FaultyExecutionDataSet ==
    { [broker_account_code |-> "", con_id |-> None, ibkr_exec_id |-> "e1",
       ibkr_order_id |-> "o1", fill_ts |-> 1, qty |-> "1", price |-> "2.50",
       fee |-> "0.65", venue |-> "SMART", raw |-> "ibkr"],
      [broker_account_code |-> "", con_id |-> None, ibkr_exec_id |-> "e2",
       ibkr_order_id |-> "o1", fill_ts |-> 1, qty |-> "1", price |-> "2.50",
       venue |-> "SMART", raw |-> "ibkr"] }

\* PositionData records of one moment: a batch that names one twice is refused.
SameMomentPositionDataSet == {pd \in PositionDataSet : pd.asof_ts = 1 /\ pd.exchange # None}

\* The three trade and position sync jobs of accounts U1 (connected) and S1
\* (no connector), on broker output that may hold a record the store refuses.
NextAtomic ==
    \/ \E ba \in {"U1", "S1"} : \E batch \in Fetched(ba, FaultyOrderDataSet) :
            SyncOrders(ba, batch)
    \/ \E ba \in {"U1", "S1"} : \E batch \in Fetched(ba, FaultyExecutionDataSet) :
            SyncExecutions(ba, batch)
    \/ \E ba \in {"U1", "S1"} : \E batch \in Fetched(ba, SameMomentPositionDataSet) :
            SyncPositions(ba, None, batch)

SpecAtomic == Init /\ [][NextAtomic]_vars

---------------------------------------------------------------------------
(* strategies/models.py, trading/strategies/registry.py *)

\* StrategyInstance rows present in the store.
StrategyInstances == {"I1", "I2", "I3", "I4", "I5"}

\* StrategyInstance.portfolio (nullable): I2 has none, I5's portfolio has no account.
InstancePortfolio(inst) ==
    CASE inst = "I2" -> None
      [] inst = "I3" -> "PS"
      [] inst = "I5" -> "P0"
      [] OTHER -> "P1"

\* StrategyInstance.client
InstanceClient(inst) == IF inst = "I3" THEN "client2" ELSE "client1"

\* StrategyInstance.strategy_version.code_ref
CodeRef(inst) ==
    CASE inst = "I3" -> "plugins.rules:plain_function"
      [] inst = "I4" -> ""
      [] OTHER -> "trading.strategies.wheel_v1:WheelStrategy"

\* The modules a deployment can import, and the names each one defines: the
\* strategy modules of the repository and a plug-in module with a function.
Modules ==
    [m \in {"trading.strategies.wheel_v1", "trading.strategies.testing_strategies",
            "plugins.rules"} |->
        CASE m = "trading.strategies.wheel_v1" -> {"WheelStrategy"}
          [] m = "trading.strategies.testing_strategies" -> {"DummyNoopStrategy"}
          [] OTHER -> {"plain_function"}]

\* code_ref values of StrategyVersion rows: empty (the default), a plug-in id
\* without colon (as the demo seed writes), three references that resolve,
\* an unknown module, a missing name, an empty module path and a relative one.
CodeRefs ==
    {"", "engine.plugins.wheel.v1",
     "trading.strategies.wheel_v1:WheelStrategy",
     "trading.strategies.testing_strategies:DummyNoopStrategy",
     "plugins.rules:plain_function",
     "trading.strategies.wheel_v9:WheelStrategy",
     "trading.strategies.wheel_v1:Missing",
     ":WheelStrategy", ".wheel_v1:WheelStrategy"}

\* ":" in code_ref
HasColon(code_ref) == code_ref \notin {"", "engine.plugins.wheel.v1"}

\* code_ref.split(":", 1)
SplitCodeRef(code_ref) ==
    CASE code_ref = "trading.strategies.wheel_v1:WheelStrategy" ->
             <<"trading.strategies.wheel_v1", "WheelStrategy">>
      [] code_ref = "trading.strategies.testing_strategies:DummyNoopStrategy" ->
             <<"trading.strategies.testing_strategies", "DummyNoopStrategy">>
      [] code_ref = "plugins.rules:plain_function" -> <<"plugins.rules", "plain_function">>
      [] code_ref = "trading.strategies.wheel_v9:WheelStrategy" ->
             <<"trading.strategies.wheel_v9", "WheelStrategy">>
      [] code_ref = "trading.strategies.wheel_v1:Missing" ->
             <<"trading.strategies.wheel_v1", "Missing">>
      [] code_ref = ":WheelStrategy" -> <<"", "WheelStrategy">>
      [] code_ref = ".wheel_v1:WheelStrategy" -> <<".wheel_v1", "WheelStrategy">>

\* importlib.import_module(module_path): an empty name raises ValueError, a
\* relative name without package raises TypeError, an unknown module raises
\* ModuleNotFoundError (an ImportError).
ImportModule(module_path) ==
    IF module_path = ""
    THEN [ok |-> FALSE, exc |-> [type |-> "ValueError", message |-> "Empty module name"]]
    ELSE IF module_path = ".wheel_v1"
    THEN [ok |-> FALSE,
          exc |-> [type |-> "TypeError",
                   message |-> "the 'package' argument is required to perform a relative import"]]
    ELSE IF module_path \notin DOMAIN Modules
    THEN [ok |-> FALSE, exc |-> [type |-> "ImportError", message |-> "No module named"]]
    ELSE [ok |-> TRUE, exc |-> NoExc]

\* The object a name of a module stands for: a class derived from
\* BaseStrategy or a plain function.
ObjectOf(module_path, obj_name) ==
    IF obj_name = "plain_function" THEN "function" ELSE "BaseStrategy"

\* Lines 40-45: `except ImportError` turns an ImportError into
\* ImproperlyConfigured; any other exception passes through.
ImportFailure(exc) ==
    IF exc.type = "ImportError"
    THEN [type |-> "ImproperlyConfigured", message |-> "Cannot import module"]
    ELSE exc

\* _load_object_from_code_ref(code_ref)
LoadObjectFromCodeRef(code_ref) ==
    IF code_ref = ""
    THEN [ok |-> FALSE, callable |-> None,
          exc |-> [type |-> "ImproperlyConfigured",
                   message |-> "StrategyVersion.code_ref is empty"]]
    ELSE IF ~ HasColon(code_ref)
    THEN [ok |-> FALSE, callable |-> None,
          exc |-> [type |-> "ImproperlyConfigured", message |-> "Invalid code_ref"]]
    ELSE LET module_path == SplitCodeRef(code_ref)[1]
             obj_name == SplitCodeRef(code_ref)[2]
             module == ImportModule(module_path)
         IN IF ~ module.ok
            THEN [ok |-> FALSE, callable |-> None, exc |-> ImportFailure(module.exc)]
            ELSE IF obj_name \notin Modules[module_path]
            THEN [ok |-> FALSE, callable |-> None,
                  exc |-> [type |-> "ImproperlyConfigured", message |-> "Object not found"]]
            ELSE [ok |-> TRUE, callable |-> ObjectOf(module_path, obj_name), exc |-> NoExc]

\* get_registered_strategy(version): the loaded object (the schema lookup
\* cannot fail), or the exception of the loader.
GetRegisteredStrategy(code_ref) == LoadObjectFromCodeRef(code_ref)

\* The loop of list_registered_strategies over the StrategyVersion rows:
\* versions without code_ref are passed over, ImproperlyConfigured is
\* swallowed, any other exception leaves the function.
RECURSIVE ListLoop(_, _, _)
ListLoop(versions, i, registered) ==
    IF i > Len(versions) THEN [ok |-> TRUE, registered |-> registered, exc |-> NoExc]
    ELSE IF versions[i] = "" THEN ListLoop(versions, i + 1, registered)
    ELSE LET r == GetRegisteredStrategy(versions[i])
         IN IF r.ok
            THEN ListLoop(versions, i + 1,
                          Append(registered, [version |-> i, callable |-> r.callable]))
            ELSE IF r.exc.type = "ImproperlyConfigured"
            THEN ListLoop(versions, i + 1, registered)
            ELSE [ok |-> FALSE, registered |-> <<>>, exc |-> r.exc]

\* list_registered_strategies()
ListRegisteredStrategies(versions) == ListLoop(versions, 1, <<>>)

\* Most StrategyVersion rows in the store.
MaxVersions == 3

\* One call of get_registered_strategy.
CallGetRegisteredStrategy(code_ref) ==
    /\ called' = [fn |-> "get_registered_strategy", code_ref |-> code_ref,
                  result |-> GetRegisteredStrategy(code_ref)]
    /\ UNCHANGED <<store, engine, mapped, sim, last, workers>>

\* One call of list_registered_strategies on the StrategyVersion rows given
\* by their code_ref values.
CallListRegisteredStrategies(versions) ==
    /\ called' = [fn |-> "list_registered_strategies", versions |-> versions,
                  result |-> ListRegisteredStrategies(versions)]
    /\ UNCHANGED <<store, engine, mapped, sim, last, workers>>

\* The registry read on any StrategyVersion table.  Both functions only read,
\* so one call per behaviour covers every call.
NextRegistry ==
    \/ /\ called.fn = None
       /\ \E code_ref \in CodeRefs : CallGetRegisteredStrategy(code_ref)
    \/ /\ called.fn = None
       /\ \E versions \in SeqsUpTo(CodeRefs, MaxVersions) :
             CallListRegisteredStrategies(versions)

SpecRegistry == Init /\ [][NextRegistry]_vars

\* StrategyInstance.config["safety"] (absent keys take the defaults 50 and 10).
SafetyConfig(inst) ==
    IF inst \in {"I1", "I3"}
    THEN [max_recommendations |-> 1, max_per_plan |-> 10]
    ELSE [max_recommendations |-> 50, max_per_plan |-> 10]

---------------------------------------------------------------------------
(* trading/strategies/registry.py: validate_config_against_schema *)

\* Python values, told apart by their class: type(value).__name__
PyTypes == {"str", "bool", "int", "float", "list", "dict", "NoneType"}

\* isinstance(value, cls): bool is a subclass of int.
IsInstance(value, classes) ==
    \/ value \in classes
    \/ value = "bool" /\ "int" \in classes

\* Field names of a config.
ConfigKeys == {"min_dte", "notes"}

\* Configs handed to the validator: dicts (lists of items in insertion order,
\* no key twice) and two values that are no dict.
Configs ==
    {[kind |-> "dict", items |-> s] :
        s \in {t \in SeqsUpTo(ConfigKeys \X PyTypes, Cardinality(ConfigKeys)) :
                \A i, j \in 1..Len(t) : t[i][1] = t[j][1] => i = j}}
    \cup {[kind |-> "list", items |-> <<>>], [kind |-> "NoneType", items |-> <<>>]}

\* The "type" of a property declaration; Absent when the declaration has none.
DeclaredTypes == {"string", "boolean", "number", "integer", "array", Absent}

\* Schemas handed to the validator: the empty schema, and object schemas with
\* properties for some of the keys, a list of required names and
\* additionalProperties absent, True or False (written as strings).
Schemas ==
    {[type |-> Absent, properties |-> <<>>, required |-> <<>>,
      additionalProperties |-> Absent, empty |-> TRUE]}
    \cup
    {[type |-> "object", properties |-> p, required |-> r,
      additionalProperties |-> a, empty |-> FALSE] :
        p \in UNION {[K -> DeclaredTypes] : K \in SUBSET ConfigKeys},
        r \in {t \in SeqsUpTo(ConfigKeys, Cardinality(ConfigKeys)) :
                 \A i, j \in 1..Len(t) : t[i] = t[j] => i = j},
        a \in {Absent, "True", "False"}}

\* schema.get("additionalProperties", True) is False
AdditionalPropertiesIsFalse(schema) == schema.additionalProperties = "False"

\* name in config
InConfig(config, name) == \E i \in 1..Len(config.items) : config.items[i][1] = name

\* Lines 135-137: one message for each required field the config lacks.
RECURSIVE RequiredLoop(_, _, _, _)
RequiredLoop(config, required, i, errors) ==
    IF i > Len(required) THEN errors
    ELSE RequiredLoop(config, required, i + 1,
            IF InConfig(config, required[i])
            THEN errors
            ELSE Append(errors, [kind |-> "Missing required field", field |-> required[i],
                                 expected |-> None, got |-> None]))

\* Lines 148-157: the chain of isinstance tests.
TypeMismatch(expected_type, value) ==
    CASE expected_type = "string" -> ~ IsInstance(value, {"str"})
      [] expected_type = "boolean" -> ~ IsInstance(value, {"bool"})
      [] expected_type = "number" -> ~ IsInstance(value, {"int", "float"})
      [] expected_type = "integer" -> ~ IsInstance(value, {"int"})
      [] expected_type = "array" -> ~ IsInstance(value, {"list"})
      [] OTHER -> FALSE

\* Lines 140-157: the loop over config.items().
RECURSIVE ItemsLoop(_, _, _, _)
ItemsLoop(config, schema, i, errors) ==
    IF i > Len(config.items) THEN errors
    ELSE LET name == config.items[i][1]
             value == config.items[i][2]
             props == schema.properties
         IN ItemsLoop(config, schema, i + 1,
               IF name \notin DOMAIN props
               THEN IF AdditionalPropertiesIsFalse(schema)
                    THEN Append(errors, [kind |-> "Unexpected field", field |-> name,
                                         expected |-> None, got |-> None])
                    ELSE errors
               ELSE IF props[name] # Absent /\ TypeMismatch(props[name], value)
               THEN Append(errors, [kind |-> "Field expected", field |-> name,
                                    expected |-> props[name], got |-> value])
               ELSE errors)

\* validate_config_against_schema(config, schema)
ValidateConfigAgainstSchema(config, schema) ==
    IF schema.empty THEN <<>>
    ELSE IF schema.type # "object" THEN <<>>
    ELSE IF config.kind # "dict"
    THEN <<[kind |-> "Expected object", field |-> None, expected |-> "object",
            got |-> config.kind]>>
    ELSE ItemsLoop(config, schema, 1, RequiredLoop(config, schema.required, 1, <<>>))

\* One call of validate_config_against_schema.
CallValidateConfigAgainstSchema(config, schema) ==
    /\ called' = [fn |-> "validate_config_against_schema", config |-> config,
                  schema |-> schema,
                  result |-> ValidateConfigAgainstSchema(config, schema)]
    /\ UNCHANGED <<store, engine, mapped, sim, last, workers>>

\* The validator on any config and schema.  It is a pure function, so one
\* call per behaviour covers every call.
NextValidate ==
    /\ called.fn = None
    /\ \E config \in Configs, schema \in Schemas :
          CallValidateConfigAgainstSchema(config, schema)

SpecValidate == Init /\ [][NextValidate]_vars

---------------------------------------------------------------------------
(* trading/strategies/executor.py: build_strategy_context *)

\* A bug: the latest snapshot of any account is taken.
LatestSnapshot_AnyAccount(ba) ==
    IF snapshots = <<>> THEN NoRow
    ELSE CHOOSE i \in 1..Len(snapshots) :
            \A j \in 1..Len(snapshots) : snapshots[i].asof_ts >= snapshots[j].asof_ts

\* AccountSnapshot.objects.filter(broker_account=).order_by("-asof_ts").first()
\* (broker_account, asof_ts) is unique, so the greatest as-of names one row.
LatestSnapshot(ba) ==
    LET mine == {i \in 1..Len(snapshots) : snapshots[i].broker_account = ba}
    IN IF mine = {} THEN NoRow
       ELSE CHOOSE i \in mine : \A j \in mine : snapshots[i].asof_ts >= snapshots[j].asof_ts

\* A bug: only filled orders are left out of the open orders.
ExcludedStatuses_FilledOnly == {"Filled"}

\* .exclude(status__in=["Filled", "Cancelled"])
ExcludedStatuses == {"Filled", "Cancelled"}

\* Days of fills a context looks back on.
RecentDays == 7

\* build_strategy_context(instance, asof_ts)
BuildStrategyContext(inst, asof_ts) ==
    LET portfolio == InstancePortfolio(inst)
        broker_account == IF portfolio = None THEN None ELSE PortfolioAccount(portfolio)
        snapshot == LatestSnapshot(broker_account)
        zero == snapshot = NoRow
    IN  IF portfolio = None
        THEN [NoContext EXCEPT !.exc = [type |-> "ValueError",
                                        message |-> "StrategyInstance has no portfolio set"]]
        ELSE IF broker_account = None
        THEN [NoContext EXCEPT !.exc = [type |-> "ValueError",
                                        message |-> "Portfolio has no broker_account set"]]
        ELSE [ok |-> TRUE, exc |-> NoExc, client |-> InstanceClient(inst),
              portfolio |-> portfolio, broker_account |-> broker_account,
              asof_ts |-> asof_ts,
              cash |-> IF zero THEN "0" ELSE snapshots[snapshot].cash,
              buying_power |-> IF zero THEN "0" ELSE snapshots[snapshot].buying_power,
              maintenance_margin |->
                  IF zero THEN "0" ELSE snapshots[snapshot].maintenance_margin,
              used_margin |-> IF zero THEN "0" ELSE snapshots[snapshot].used_margin,
              positions |->
                  SelectSeq(positions, LAMBDA r : /\ r.portfolio = portfolio
                                                  /\ r.broker_account = broker_account),
              open_orders |->
                  SelectSeq(orders, LAMBDA r : /\ r.broker_account = broker_account
                                               /\ r.status \notin ExcludedStatuses),
              recent_executions |->
                  SelectSeq(executions, LAMBDA r : /\ r.client = InstanceClient(inst)
                                                   /\ r.fill_ts >= asof_ts - RecentDays)]

---------------------------------------------------------------------------
(* trading/strategies/safety.py *)

\* Python's s[:n]
PySlice(s, n) ==
    IF n >= 0
    THEN SubSeq(s, 1, IF n < Len(s) THEN n ELSE Len(s))
    ELSE SubSeq(s, 1, IF Len(s) + n > 0 THEN Len(s) + n ELSE 0)

\* id(act): the actions a strategy run returns are objects built one by one,
\* told apart by their place in the list; a list handed to the filter directly
\* names the object at each place, and may name one object twice.
ObjectId(actions, i) ==
    IF "id" \in DOMAIN actions[i] THEN actions[i].id ELSE <<"at", i>>

\* Two actions of a list fall under one key of `grouped`: the key is the plan
\* id, or "singleton:<id(act)>" when the plan id is None or empty.
SameGroup(actions, i, j) ==
    IF actions[i].plan_id \in {None, ""}
    THEN /\ actions[j].plan_id \in {None, ""}
         /\ ObjectId(actions, i) = ObjectId(actions, j)
    ELSE actions[j].plan_id = actions[i].plan_id

\* A bug: a group holds only the action that opened it.
GroupOf_FirstOnly(actions, i) == <<actions[i]>>

\* grouped[key] for the key of action i, in list order.
GroupOf(actions, i) ==
    LET idx == SelectSeq([k \in 1..Len(actions) |-> k],
                         LAMBDA k : SameGroup(actions, i, k))
    IN [n \in 1..Len(idx) |-> actions[idx[n]]]

\* The loop over grouped.items(): dicts keep insertion order, so the groups
\* come in the order their first action was met.
RECURSIVE SafetyLoop(_, _, _, _)
SafetyLoop(actions, limits, i, filtered) ==
    IF i > Len(actions) THEN filtered
    ELSE IF \E j \in 1..(i - 1) : SameGroup(actions, j, i)
    THEN SafetyLoop(actions, limits, i + 1, filtered)
    ELSE SafetyLoop(actions, limits, i + 1,
                    filtered \o PySlice(GroupOf(actions, i), limits.max_per_plan))

\* apply_safety_limits(actions, limits)[0]
ApplySafetyLimits(actions, limits) ==
    PySlice(SafetyLoop(actions, limits, 1, <<>>), limits.max_recommendations)

\* Longest action list handed to the filter directly.
MaxListLen == 4

\* PlannedAction objects handed to the filter: two legs of plan A, one leg of
\* plan B, and three without plan (plan_id None, None and "").
SafetyObjects ==
    { [id |-> "a1", plan_id |-> "A"], [id |-> "a2", plan_id |-> "A"],
      [id |-> "b1", plan_id |-> "B"], [id |-> "n1", plan_id |-> None],
      [id |-> "n2", plan_id |-> None], [id |-> "e1", plan_id |-> ""] }

\* SafetyLimits handed to the filter.
SafetyLimitsSet ==
    { [max_recommendations |-> r, max_per_plan |-> p] : r \in 0..MaxListLen, p \in 0..2 }

\* One call of apply_safety_limits; its arguments and its result are kept.
CallApplySafetyLimits(actions, limits) ==
    /\ called' = [fn |-> "apply_safety_limits", actions |-> actions, limits |-> limits,
                  result |-> ApplySafetyLimits(actions, limits)]
    /\ UNCHANGED <<store, engine, mapped, sim, last, workers>>

\* The filter applied to any action list and limits.  It is a pure function,
\* so one call per behaviour covers every call.
NextSafety ==
    /\ called.fn = None
    /\ \E actions \in SeqsUpTo(SafetyObjects, MaxListLen), limits \in SafetyLimitsSet :
          CallApplySafetyLimits(actions, limits)

SpecSafety == Init /\ [][NextSafety]_vars

---------------------------------------------------------------------------
(* trading/strategies/recommendations.py *)

\* normalize_action_name: strip, lower-case, blanks to underscores.
NormalizeActionName(action) ==
    CASE action \in {"Sell Put", "SELL_PUT", " sell_put "} -> "sell_put"
      [] action = "Diagnostic" -> "diagnostic"
      [] OTHER -> action

\* A plan id that uuid.UUID() accepts.
IsUuid(plan_id) == plan_id = "11111111-1111-1111-1111-111111111111"

\* Recommendation.objects.create(...): underlier is a non-nullable foreign key,
\* plan_id is a UUIDField.
CreateRecommendation(rows, inst, client, portfolio, broker_account, asof_ts, act) ==
    IF act.plan_id # None /\ ~ IsUuid(act.plan_id)
    THEN [ok |-> FALSE, rows |-> rows,
          exc |-> [type |-> "ValidationError", message |-> "is not a valid UUID"]]
    ELSE IF act.underlier = None
    THEN [ok |-> FALSE, rows |-> rows,
          exc |-> [type |-> "IntegrityError",
                   message |-> "NOT NULL constraint failed: underlier_id"]]
    ELSE [ok |-> TRUE, exc |-> NoExc,
          rows |-> Append(rows,
                     [client |-> client, portfolio |-> portfolio,
                      broker_account |-> broker_account, strategy_instance |-> inst,
                      strategy_version |-> CodeRef(inst), asof_ts |-> asof_ts,
                      underlier |-> act.underlier, ibkr_con |-> act.ibkr_con,
                      action |-> NormalizeActionName(act.action),
                      params |-> act.params, confidence |-> act.confidence,
                      rationale |-> act.rationale, plan_id |-> act.plan_id])]

---------------------------------------------------------------------------
(* trading/strategies/executor.py: run_strategy_instance *)

\* run_strategy_instance opens no transaction, so every row it writes is
\* committed by the statement that writes it.  The call is therefore modelled
\* statement by statement: one step for each write and one for the reads and
\* the strategy code between two writes.

\* StrategyRun rows the model lets the engine create.
MaxRuns == 2

\* Longest action list a strategy returns.
MaxActions == 2

\* The columns of StrategyRun: the status and the statistics, and the debug
\* log, the error trace and the duration that the engine attaches to a run.
StrategyRunFields ==
    {"strategy_instance", "run_ts", "mode", "status", "stats", "errors",
     "debug_log", "error_trace", "duration_ms"}

\* PlannedActions a strategy may emit: an order idea on an underlier, and a
\* diagnostic without underlier.
PlannedActionSet ==
    { [underlier |-> "AAPL", ibkr_con |-> None, action |-> "Sell Put",
       params |-> [NoParams EXCEPT !.qty = "1"], confidence |-> "0.8",
       rationale |-> "", plan_id |-> None],
      [underlier |-> None, ibkr_con |-> None, action |-> "diagnostic",
       params |-> NoParams, confidence |-> "0.5", rationale |-> "", plan_id |-> None] }

\* What the strategy code does with a context: it raises, it returns None, or
\* it returns a list of PlannedActions.
StrategyOutputs ==
    { [kind |-> "raise", actions |-> <<>>,
       exc |-> [type |-> "RuntimeError", message |-> "Synthetic failure"]],
      [kind |-> "none", actions |-> <<>>,
       exc |-> [type |-> "TypeError", message |-> "object of type 'NoneType' has no len()"]] }
    \cup { [kind |-> "return", actions |-> a, exc |-> NoExc]
           : a \in SeqsUpTo(PlannedActionSet, MaxActions) }

\* as-of arguments of a call.
AsofChoices == {2}

\* traceback.format_exc() inside the except clause: never empty.
FormatExc(exc) == <<"Traceback (most recent call last):", exc.type, exc.message>>

\* StrategyRun.objects.create(strategy_instance=, run_ts=, mode=MANUAL,
\* status="in_progress", stats={}, errors={}, debug_log=[]): a keyword that is
\* no column of the model raises TypeError.
CreateStrategyRun(rows, inst, asof_ts) ==
    IF {"strategy_instance", "run_ts", "mode", "status", "stats", "errors", "debug_log"}
           \subseteq StrategyRunFields
    THEN [ok |-> TRUE, exc |-> NoExc,
          rows |-> Append(rows,
                     [strategy_instance |-> inst, run_ts |-> asof_ts, mode |-> "manual",
                      status |-> "in_progress", stats |-> {}, errors |-> {},
                      debug_log |-> <<>>, error_trace |-> <<>>, duration_ms |-> None])]
    ELSE [ok |-> FALSE, rows |-> rows,
          exc |-> [type |-> "TypeError",
                   message |-> "StrategyRun() got unexpected keyword arguments"]]

\* The call is under way.
Running == call.pc \in {"evaluate", "persist", "finish", "except"}

\* Lines 136-159: resolve the implementation, then create the run row.
StartRun(inst, asof_ts, persist) ==
    /\ ~ Running
    /\ Len(runs) < MaxRuns
    /\ LET frame == [Frame("evaluate", inst, asof_ts, persist)
                        EXCEPT !.runs_before = Len(runs), !.recs_before = Len(recs)]
           registered == GetRegisteredStrategy(CodeRef(inst))
           created == CreateStrategyRun(runs, inst, asof_ts)
       IN IF ~ registered.ok
          THEN /\ call' = [frame EXCEPT !.pc = "raised", !.raised = registered.exc]
               /\ UNCHANGED runs
          ELSE IF ~ created.ok
          THEN /\ call' = [frame EXCEPT !.pc = "raised", !.raised = created.exc]
               /\ UNCHANGED runs
          ELSE /\ runs' = created.rows
               /\ call' = [frame EXCEPT !.run = Len(created.rows)]
    /\ UNCHANGED <<store, recs, pipeline, last, workers>>

\* A bug: the exception is not caught and leaves the call at once.
Raise_Uncaught(frame, phase, exc) ==
    [frame EXCEPT !.pc = "raised", !.phase = phase, !.exc = exc, !.raised = exc]

\* An exception leaves the try block: control passes to the except clause.
Raise(frame, phase, exc) ==
    [frame EXCEPT !.pc = "except", !.phase = phase, !.exc = exc]

\* A bug: the actions are persisted whether or not the caller asked for it.
ShouldPersist_Always(persist_recommendations, effective_actions) ==
    effective_actions # <<>>

\* Line 224: `if persist_recommendations and effective_actions`
ShouldPersist(persist_recommendations, effective_actions) ==
    persist_recommendations /\ effective_actions # <<>>

\* Lines 169-225: build the context, run the strategy code, apply the safety
\* limits (BaseStrategy branch only) and decide whether to persist.
EvaluateStrategy(out) ==
    /\ call.pc = "evaluate"
    /\ LET inst == call.instance
           impl == GetRegisteredStrategy(CodeRef(inst)).callable
           is_class == impl = "BaseStrategy"
           start_log == IF is_class
                        THEN <<"build_context_start">>
                        ELSE <<"impl_build_context_start">>
           context == BuildStrategyContext(inst, call.asof_ts)
           run_log == start_log \o
                      (IF is_class
                       THEN <<"build_context_done", "strategy_execute_start">>
                       ELSE <<"impl_build_context_done", "impl_execute_start">>)
           actions == out.actions
           limits == SafetyConfig(inst)
           actions_after_safety ==
               IF is_class THEN ApplySafetyLimits(actions, limits) ELSE actions
           done_log == run_log \o
                       (IF is_class
                        THEN <<"strategy_execute_done", "safety_applied">>
                        ELSE <<"impl_execute_done">>)
           persist == ShouldPersist(call.persist_recommendations, actions_after_safety)
       IN call' =
            IF ~ context.ok
            THEN Raise([call EXCEPT !.debug_log = start_log], "context", context.exc)
            ELSE IF out.kind # "return"
            THEN Raise([call EXCEPT !.debug_log = run_log, !.context = context],
                       "evaluate", out.exc)
            ELSE [call EXCEPT
                    !.context = context,
                    !.actions = actions,
                    !.effective_actions = actions_after_safety,
                    !.debug_log = IF persist
                                  THEN done_log \o <<"persist_recommendations_start">>
                                  ELSE done_log,
                    !.pc = IF persist THEN "persist" ELSE "finish"]
    /\ UNCHANGED <<store, runs, recs, pipeline, last, workers>>

\* Lines 140-190 of recommendations.py: one turn of the loop of
\* record_recommendations, which creates one Recommendation row.
RecordRecommendation ==
    /\ call.pc = "persist"
    /\ LET act == call.effective_actions[call.next]
           r == CreateRecommendation(recs, call.instance, InstanceClient(call.instance),
                                     call.context.portfolio, call.context.broker_account,
                                     call.context.asof_ts, act)
           last_one == call.next = Len(call.effective_actions)
       IN IF ~ r.ok
          THEN /\ call' = Raise(call, "persist", r.exc)
               /\ UNCHANGED recs
          ELSE /\ recs' = r.rows
               /\ call' = [call EXCEPT
                             !.next = @ + 1,
                             !.debug_log = IF last_one
                                           THEN @ \o <<"persist_recommendations_done">>
                                           ELSE @,
                             !.pc = IF last_one THEN "finish" ELSE "persist"]
    /\ UNCHANGED <<store, runs, pipeline, last, workers>>

\* Lines 237-243: the run is saved as ok and the actions are returned.
SaveOk ==
    /\ call.pc = "finish"
    /\ runs' = [runs EXCEPT ![call.run] =
                  [@ EXCEPT !.status = "ok",
                            !.stats = {<<"num_actions", Len(call.actions)>>},
                            !.duration_ms = "elapsed",
                            !.debug_log = call.debug_log]]
    /\ call' = [call EXCEPT !.pc = "returned", !.returned = call.actions]
    /\ UNCHANGED <<store, recs, pipeline, last, workers>>

\* A bug: the except clause saves the trace and the message but not the status.
SaveError_StatusNotSaved ==
    /\ call.pc = "except"
    /\ runs' = [runs EXCEPT ![call.run] =
                  [@ EXCEPT !.error_trace = FormatExc(call.exc),
                            !.errors = {<<"message", call.exc.message>>},
                            !.duration_ms = "elapsed",
                            !.debug_log = call.debug_log \o <<"error">>]]
    /\ call' = [call EXCEPT !.pc = "raised", !.raised = call.exc,
                            !.debug_log = @ \o <<"error">>]
    /\ UNCHANGED <<store, recs, pipeline, last, workers>>

\* Lines 245-254: the except clause saves the run as error and re-raises.
SaveError ==
    /\ call.pc = "except"
    /\ runs' = [runs EXCEPT ![call.run] =
                  [@ EXCEPT !.status = "error",
                            !.error_trace = FormatExc(call.exc),
                            !.errors = {<<"message", call.exc.message>>},
                            !.duration_ms = "elapsed",
                            !.debug_log = call.debug_log \o <<"error">>]]
    /\ call' = [call EXCEPT !.pc = "raised", !.raised = call.exc,
                            !.debug_log = @ \o <<"error">>]
    /\ UNCHANGED <<store, recs, pipeline, last, workers>>

\* Calls of run_strategy_instance, one at a time, for every instance, either
\* value of the persistence flag and every behaviour of the strategy code.
NextRun ==
    \/ \E inst \in StrategyInstances, asof_ts \in AsofChoices, persist \in BOOLEAN :
          StartRun(inst, asof_ts, persist)
    \/ \E out \in StrategyOutputs : EvaluateStrategy(out)
    \/ RecordRecommendation
    \/ SaveOk
    \/ SaveError

SpecRun == Init /\ [][NextRun]_vars

---------------------------------------------------------------------------
(* run_strategy_instance on a store the sync jobs have filled *)

\* Each sync job runs once for account U1, in the order orders, fills,
\* positions, option events, account snapshot, at any moment before, between
\* or during calls of run_strategy_instance.
NextFrame ==
    \/ /\ orders = <<>>
       /\ \E od \in {d \in OrderDataSet : d.broker_account_code = "" /\ d.status = "Submitted"} :
             SyncOrders("U1", <<od>>)
    \/ /\ orders # <<>> /\ executions = <<>>
       /\ \E ed \in {d \in ExecutionDataSet : /\ d.broker_account_code = ""
                                              /\ d.ibkr_exec_id = "e1"} :
             SyncExecutions("U1", <<ed>>)
    \/ /\ executions # <<>> /\ positions = <<>>
       /\ \E pd \in {d \in PositionDataSet : /\ d.exchange # None /\ d.con_id # None
                                             /\ d.asof_ts = 1} :
             SyncPositions("U1", None, <<pd>>)
    \/ /\ positions # <<>> /\ optionEvents = <<>>
       /\ \E ev \in {d \in OptionEventDataSet : d.broker_account_code = "" /\ d.notes = "n1"} :
             SyncOptionEvents("U1", <<ev>>)
    \/ /\ optionEvents # <<>> /\ snapshots = <<>>
       /\ \E sd \in {d \in AccountSnapshotDataSet : d.asof_ts = 1 /\ d.cash = "100000"} :
             SyncAccountSnapshot("U1", <<sd>>)
    \/ NextRun

SpecFrame == Init /\ [][NextFrame]_vars

---------------------------------------------------------------------------
(* trading/strategies/execution_mapping.py, execution_intents.py *)

\* Decimal(str(v)) for the values that occur in params: decimals are counted
\* in thousandths; a text that is no number raises decimal.InvalidOperation.
ParseDecimal(v) ==
    CASE v \in {"0", "0.00"} -> [ok |-> TRUE, value |-> 0]
      [] v = "1" -> [ok |-> TRUE, value |-> 1000]
      [] v = "2" -> [ok |-> TRUE, value |-> 2000]
      [] v = "-1" -> [ok |-> TRUE, value |-> -1000]
      [] v = "2.50" -> [ok |-> TRUE, value |-> 2500]
      [] OTHER -> [ok |-> FALSE, value |-> 0]

\* int(v) for a con_id parameter, written as its decimal digits: blanks around
\* the digits are dropped, anything else raises ValueError.
ParseInt(v) ==
    CASE v \in {"265598", " 265598 "} -> [ok |-> TRUE, value |-> "265598"]
      [] OTHER -> [ok |-> FALSE, value |-> None]

\* str.upper()
Upper(s) ==
    CASE s = "gtc" -> "GTC"
      [] s = "lmt" -> "LMT"
      [] s = "stp" -> "STP"
      [] OTHER -> s

EXECUTABLE_ACTIONS ==
    {"sell_put", "sell_call", "buy_to_close", "sell_to_close", "buy_shares", "sell_shares"}

\* `key in params and params[key] not in (None, "")`
HasValue(params, key) == params[key] \notin {Absent, None, ""}

\* params.get(key)
Get(params, key) == IF params[key] = Absent THEN None ELSE params[key]

\* action.ibkr_con.con_id: a contract row is referred to by its con_id; an
\* attached object without con_id attribute gives None.
AttachedConId(ibkr_con) == IF ibkr_con = "no_con_id" THEN None ELSE ibkr_con

\* side_map.get(action.action)
SideOf(action) ==
    CASE action \in {"sell_put", "sell_call", "sell_shares", "sell_to_close"} -> "SELL"
      [] action \in {"buy_to_close", "buy_shares"} -> "BUY"
      [] OTHER -> None

\* The mapper's two ways out.
MappingRaises(exc) == [outcome |-> "raise", exc |-> exc, intent |-> NoIntent]
MappingReturns(intent) == [outcome |-> "return", exc |-> None, intent |-> intent]

\* A bug: the first key looked up for the quantity is "quantity".
QuantityKey_QuantityFirst(params) ==
    IF HasValue(params, "quantity") THEN "quantity"
    ELSE IF HasValue(params, "qty") THEN "qty"
    ELSE None

\* _extract_decimal(params, "qty", "quantity", required=True): the key it reads.
QuantityKey(params) ==
    IF HasValue(params, "qty") THEN "qty"
    ELSE IF HasValue(params, "quantity") THEN "quantity"
    ELSE None

\* map_planned_action_to_execution_intent(action, context); broker_account is
\* context.broker_account, None when the context has none.
MapPlannedActionToExecutionIntent(action, broker_account) ==
    LET params == action.params
        qkey == QuantityKey(params)
        quantity == ParseDecimal(params[qkey])
        has_limit == HasValue(params, "limit_price")
        limit_price == ParseDecimal(params["limit_price"])
        given_type == Get(params, "order_type")
        order_type == IF given_type \in {None, ""}
                      THEN (IF has_limit THEN "LMT" ELSE "MKT")
                      ELSE given_type
        given_tif == Get(params, "tif")
        tif == Upper(IF given_tif \in {None, ""} THEN "DAY" ELSE given_tif)
        attached == IF action.ibkr_con # None THEN AttachedConId(action.ibkr_con) ELSE None
        raw_con_id == Get(params, "con_id")
        parsed == ParseInt(raw_con_id)
        con_id == IF attached # None THEN attached
                  ELSE IF raw_con_id # None THEN parsed.value ELSE None
        side == SideOf(action.action)
    IN  IF action.action \notin EXECUTABLE_ACTIONS
        THEN MappingRaises("ExecutionMappingError")
        ELSE IF broker_account = None \/ AccountCode(broker_account) = ""
        THEN MappingRaises("ExecutionMappingError")
        ELSE IF qkey = None THEN MappingRaises("ExecutionMappingError")
        ELSE IF ~ quantity.ok THEN MappingRaises("InvalidOperation")
        ELSE IF quantity.value <= 0 THEN MappingRaises("ExecutionMappingError")
        ELSE IF has_limit /\ ~ limit_price.ok THEN MappingRaises("InvalidOperation")
        ELSE IF attached = None /\ raw_con_id # None /\ ~ parsed.ok
        THEN MappingRaises("ValueError")
        ELSE IF con_id = None THEN MappingRaises("ExecutionMappingError")
        ELSE IF side = None THEN MappingRaises("ExecutionMappingError")
        ELSE MappingReturns(
               [broker_account_code |-> AccountCode(broker_account),
                con_id |-> con_id, side |-> Upper(side), order_type |-> Upper(order_type),
                quantity |-> quantity.value,
                limit_price |-> IF has_limit THEN limit_price.value ELSE None,
                tif |-> Upper(tif), action |-> action.action,
                plan_id |-> action.plan_id, notes |-> action.rationale,
                raw_params |-> params])

\* One call of the mapper; its argument and its result are kept.
MapPlannedAction(action, broker_account) ==
    /\ LET r == MapPlannedActionToExecutionIntent(action, broker_account)
       IN mapped' = [outcome |-> r.outcome, action |-> action,
                     broker_account |-> broker_account,
                     intent |-> r.intent, exc |-> r.exc]
    /\ UNCHANGED <<store, engine, sim, called, last, workers>>

\* Action verbs handed to the mapper: the executable ones and a diagnostic.
MapperVerbs == EXECUTABLE_ACTIONS \cup {"diagnostic"}

\* params dicts handed to the mapper.
MapperParams ==
    { [qty |-> q, quantity |-> n, limit_price |-> l, order_type |-> o,
       tif |-> t, con_id |-> c]
      : q \in {Absent, None, "", "0", "1", "-1", "abc"},
        n \in {Absent, "0", "2"},
        l \in {Absent, "", "2.50", "abc"},
        o \in {Absent, "stp"},
        t \in {Absent, "gtc"},
        c \in {Absent, None, "", " 265598 ", "abc"} }

\* PlannedActions handed to the mapper, with and without attached contract.
MapperActions ==
    { [underlier |-> None, ibkr_con |-> k, action |-> v, params |-> p,
       confidence |-> "0.7", rationale |-> "Test short put", plan_id |-> None]
      : v \in MapperVerbs, p \in MapperParams, k \in {None, "999999", "no_con_id"} }

\* context.broker_account: none, an account with a code, an account without.
MapperAccounts == {None, "U1", "S1"}

\* The mapper applied to any planned action and context.  It is a pure
\* function, so one call per behaviour covers every call.
NextMap ==
    /\ mapped.outcome = "none"
    /\ \E action \in MapperActions, broker_account \in MapperAccounts :
          MapPlannedAction(action, broker_account)

SpecMap == Init /\ [][NextMap]_vars

---------------------------------------------------------------------------
(* portfolio/management/commands/simulate_day.py *)

\* The command opens no transaction: a row it has created stays when a later
\* statement raises.  Decimals it computes are integers counting thousandths.
\* The params dicts of the model carry none of the keys type, est_fill_price,
\* multiplier and strike, so these take their defaults.

\* Orders in the store beyond which the model starts no further simulation.
MaxSimOrders == 2

\* The calendar day of a timestamp (two ticks a day).
DateOf(ts) == ts \div 2

\* Decimal product of two numbers in thousandths.
Mul(a, b) == (a * b) \div 1000

\* Decimal.copy_abs()
Abs(a) == IF a < 0 THEN 0 - a ELSE a

\* fee_for(broker_acct, is_option=False, qty=): the account metadata set no
\* fee, so the fee is 0.005 a share.
FeeFor(qty) == Mul(5, Abs(qty))

\* est_fill_price(underlier, action, params): D(limit_price) when the key holds
\* anything but None, else D(params.get("est_fill_price", "0")).
EstFillPrice(params) ==
    IF Get(params, "limit_price") # None
    THEN ParseDecimal(params.limit_price)
    ELSE ParseDecimal("0")

\* reserve_margin(broker_acct, action, params): strike (default 0) times
\* multiplier (default 100) times |qty| for a sell_put, else 0.
ReserveMargin(action, qty) ==
    IF action = "sell_put" THEN Mul(Mul(0, 100 * 1000), Abs(qty)) ELSE 0

\* BrokerAccount.objects.filter(kind="SIM"), narrowed by --client.
SimAccounts(client) ==
    {ba \in BrokerAccounts : /\ Kind(ba) = "SIM"
                             /\ client \in {None, ""} \/ ClientOf(ba) = client}

\* The Recommendation rows of the day for these accounts, narrowed by
\* --portfolio and --plan-id.
DayRecs(bas, as_of, portfolio, plan_id) ==
    {i \in 1..Len(recs) : /\ recs[i].broker_account \in bas
                          /\ DateOf(recs[i].asof_ts) = DateOf(as_of)
                          /\ portfolio \in {None, ""} \/ recs[i].portfolio = portfolio
                          /\ plan_id \in {None, ""} \/ recs[i].plan_id = plan_id}

\* The place of an action verb in the alphabet.
ActionRank(action) ==
    CASE action = "close" -> 1
      [] action = "close_long" -> 2
      [] action = "diagnostic" -> 3
      [] action = "open_long" -> 4
      [] action = "roll" -> 5
      [] action = "sell_call" -> 6
      [] action = "sell_put" -> 7
      [] OTHER -> 8

\* order_by("asof_ts", "plan_id", "action"): row i may come before row j.
\* Where a NULL plan id sorts depends on the database, and rows with equal
\* keys come in any order.
MayPrecede(i, j) ==
    \/ recs[i].asof_ts < recs[j].asof_ts
    \/ /\ recs[i].asof_ts = recs[j].asof_ts
       /\ \/ recs[i].plan_id # recs[j].plan_id
          \/ ActionRank(recs[i].action) <= ActionRank(recs[j].action)

\* The orders in which the queryset can yield the rows of S.
Orderings(S) ==
    {s \in [1..Cardinality(S) -> S] :
        \A a, b \in 1..Cardinality(S) : a < b => (s[a] # s[b] /\ MayPrecede(s[a], s[b]))}

\* A bug: a recommendation of quantity 0 is executed like any other.
SkipsRecommendation_Never(qty) == FALSE

\* Lines 113-114: `if qty == 0: continue`
SkipsRecommendation(qty) == qty = 0

\* Lines 152-162: the Order row of a simulated fill.  The synthetic order id
\* is drawn at random; it is taken to be new.
SimOrderRow(rows, i, fill_price, as_of) ==
    LET r == recs[i]
        has_limit == r.params.limit_price # Absent
    IN [client |-> r.client, broker_account |-> r.broker_account, ibkr_con |-> r.ibkr_con,
        ibkr_order_id |-> <<"uuid4", Len(rows) + 1>>,
        side |-> IF r.action \in {"sell_put", "sell_call", "close"} THEN "SELL" ELSE "BUY",
        order_type |-> IF has_limit THEN "LMT" ELSE "MKT",
        limit_price |-> IF has_limit THEN fill_price ELSE None,
        aux_price |-> None, tif |-> "DAY", status |-> "Filled",
        raw |-> [source |-> "SIM", rec_id |-> i],
        created_ts |-> as_of, updated_ts |-> as_of]

\* The locals of handle when the loop over the recommendations begins.
SimStart(bas) ==
    [ok |-> TRUE, exc |-> None,
     orders |-> orders, executions |-> executions, positions |-> positions,
     cash |-> [ba \in bas |-> IF LatestSnapshot(ba) = NoRow THEN 0
                              ELSE snapshots[LatestSnapshot(ba)].cash],
     used_margin |-> [ba \in bas |-> IF LatestSnapshot(ba) = NoRow THEN 0
                                     ELSE snapshots[LatestSnapshot(ba)].used_margin],
     created_orders |-> 0, created_execs |-> 0, created_positions |-> 0]

\* Lines 109-185: the body of the loop for recommendation row i.
SimStep(acc, i, as_of, execute) ==
    LET r == recs[i]
        ba == r.broker_account
        params == r.params
        qty == ParseDecimal(IF params.qty = Absent THEN "0" ELSE params.qty)
        q == qty.value
        price == EstFillPrice(params)
        fill_price == price.value
        fee == FeeFor(Abs(q))
        gross == CASE r.action \in {"sell_put", "sell_call"} -> Mul(fill_price, q)
                   [] r.action = "close" -> 0 - Mul(fill_price, Abs(q))
                   [] r.action = "open_long" -> 0 - Mul(fill_price, q)
                   [] r.action = "close_long" -> Mul(fill_price, Abs(q))
                   [] OTHER -> 0
        cash_delta == gross - fee
        reserved == [acc EXCEPT !.used_margin[ba] = @ + ReserveMargin(r.action, q)]
        ord_rows == Append(acc.orders, SimOrderRow(acc.orders, i, fill_price, as_of))
        exec_obj == CreateExecution(acc.executions, ba,
                        [ibkr_exec_id |-> <<"uuid4", Len(acc.executions) + 1>>,
                         fill_ts |-> as_of, qty |-> q, price |-> fill_price,
                         fee |-> fee, venue |-> "SIM", raw |-> "simulated fill"],
                        Len(ord_rows))
        opens == r.action = "open_long"     \* r.action.startswith("open")
        pos == CreatePosition(acc.positions, ba, r.portfolio,
                   [qty |-> IF opens THEN q ELSE 0,
                    avg_cost |-> IF opens THEN fill_price ELSE 0,
                    market_price |-> fill_price, market_value |-> Mul(fill_price, q),
                    asof_ts |-> as_of],
                   r.underlier, r.ibkr_con)
        filled == [reserved EXCEPT !.orders = ord_rows,
                                   !.executions = exec_obj.rows,
                                   !.created_orders = @ + 1,
                                   !.created_execs = @ + 1,
                                   !.cash[ba] = @ + cash_delta]
    IN  IF ~ qty.ok THEN [acc EXCEPT !.ok = FALSE, !.exc = "InvalidOperation"]
        ELSE IF SkipsRecommendation(q) THEN acc
        ELSE IF ~ price.ok THEN [acc EXCEPT !.ok = FALSE, !.exc = "InvalidOperation"]
        ELSE IF ~ execute THEN reserved
        ELSE IF ~ pos.ok THEN [filled EXCEPT !.ok = FALSE, !.exc = pos.err]
        ELSE [filled EXCEPT !.positions = pos.rows, !.created_positions = @ + 1]

\* Lines 108-185: the loop, left at the first statement that raises.
RECURSIVE SimLoop(_, _, _, _, _)
SimLoop(order, n, acc, as_of, execute) ==
    IF n > Len(order) \/ ~ acc.ok THEN acc
    ELSE SimLoop(order, n + 1, SimStep(acc, order[n], as_of, execute), as_of, execute)

\* Lines 188-196: one closing AccountSnapshot per SIM account, left at the
\* first one that the store refuses.
RECURSIVE SimClose(_, _, _, _)
SimClose(todo, rows, acc, as_of) ==
    IF todo = {} THEN [ok |-> TRUE, err |-> None, rows |-> rows]
    ELSE LET ba == CHOOSE b \in todo : TRUE
             made == CreateSnapshot(rows, ba,
                        [asof_ts |-> as_of, currency |-> "USD", cash |-> acc.cash[ba],
                         buying_power |-> acc.cash[ba] * 4,
                         maintenance_margin |-> acc.used_margin[ba],
                         used_margin |-> acc.used_margin[ba], extras |-> "sim"])
         IN IF ~ made.ok THEN made
            ELSE SimClose(todo \ {ba}, made.rows, acc, as_of)

\* The report of a run of the command.
SimReport(outcome, as_of, execute, exc, acc) ==
    [outcome |-> outcome, as_of |-> as_of, execute |-> execute, exc |-> exc,
     created_orders |-> acc.created_orders, created_execs |-> acc.created_execs,
     created_positions |-> acc.created_positions]

\* Command.handle(date=, client=, portfolio=, execute=, plan_id=)
SimulateDay(as_of, client, portfolio, plan_id, execute) ==
    /\ Len(orders) < MaxSimOrders
    /\ LET bas == SimAccounts(client)
           day == DayRecs(bas, as_of, portfolio, plan_id)
       IN IF bas = {}
          THEN /\ sim' = SimReport("no_accounts", as_of, execute, None, SimStart(bas))
               /\ UNCHANGED <<orders, executions, positions, snapshots>>
          ELSE IF day = {}
          THEN /\ sim' = SimReport("no_recs", as_of, execute, None, SimStart(bas))
               /\ UNCHANGED <<orders, executions, positions, snapshots>>
          ELSE \E order \in Orderings(day) :
                 LET acc == SimLoop(order, 1, SimStart(bas), as_of, execute)
                     closing == SimClose(bas, snapshots, acc, as_of)
                 IN /\ orders' = acc.orders
                    /\ executions' = acc.executions
                    /\ positions' = acc.positions
                    /\ IF ~ acc.ok
                       THEN /\ sim' = SimReport("raise", as_of, execute, acc.exc, acc)
                            /\ UNCHANGED snapshots
                       ELSE IF ~ closing.ok
                       THEN /\ sim' = SimReport("raise", as_of, execute, closing.err, acc)
                            /\ UNCHANGED snapshots
                       ELSE /\ sim' = SimReport("complete", as_of, execute, None, acc)
                            /\ snapshots' = closing.rows
    /\ UNCHANGED <<instruments, contracts, optionEvents, engine, mapped, called, last, workers>>

\* Action verbs of the recommendations of a simulated day.
SimVerbs == {"sell_put", "open_long"}

\* params dicts of these recommendations: a quantity of 1 with a limit price,
\* and quantities of 0 written in the ways a strategy can write them.
SimParams ==
    { [NoParams EXCEPT !.qty = "1", !.limit_price = "2.50"],
      [NoParams EXCEPT !.qty = "0"],
      [NoParams EXCEPT !.quantity = "0"],
      [NoParams EXCEPT !.qty = "", !.quantity = "0"] }

\* PlannedActions a strategy emits on a simulated day, and a diagnostic
\* without underlier.
SimActionSet ==
    { [underlier |-> IF v \in {"open_long", "close_long"} THEN "MSFT" ELSE "AAPL",
       ibkr_con |-> None, action |-> v, params |-> p, confidence |-> "0.8",
       rationale |-> "", plan_id |-> None] : v \in SimVerbs, p \in SimParams }
    \cup { [underlier |-> None, ibkr_con |-> None, action |-> "diagnostic",
            params |-> NoParams, confidence |-> "0.5", rationale |-> "",
            plan_id |-> None] }

\* What the strategy code returns on a simulated day.
SimOutputs ==
    { [kind |-> "return", actions |-> a, exc |-> NoExc]
      : a \in SeqsUpTo(SimActionSet, MaxActions) }

\* Timestamps at which the command runs: the instant of the day's strategy
\* run, and the day after.
SimAsofChoices == {2, 4}

\* The filters of a run: none, or one of --client, --portfolio and --plan-id.
SimOptions ==
    { [client |-> None, portfolio |-> None, plan_id |-> None],
      [client |-> "client1", portfolio |-> None, plan_id |-> None],
      [client |-> None, portfolio |-> "P1", plan_id |-> None],
      [client |-> None, portfolio |-> None,
       plan_id |-> "11111111-1111-1111-1111-111111111111"] }

\* A day of the pipeline.  The mapper reads and writes nothing of the store,
\* so a behaviour is either one call of the mapper or a day on which one
\* strategy run persists its recommendations while simulate_day runs, for
\* the SIM account and for a broker account.
NextSim ==
    \/ /\ call.pc = "idle" /\ sim.outcome = "none"
       /\ NextMap
    \/ /\ mapped.outcome = "none"
       /\ \/ /\ runs = <<>>
             /\ \E inst \in {"I1", "I3"}, asof_ts \in AsofChoices :
                   StartRun(inst, asof_ts, TRUE)
          \/ \E out \in SimOutputs : EvaluateStrategy(out)
          \/ RecordRecommendation
          \/ SaveOk
          \/ SaveError
          \/ \E as_of \in SimAsofChoices, opts \in SimOptions, execute \in BOOLEAN :
                SimulateDay(as_of, opts.client, opts.portfolio, opts.plan_id, execute)

SpecSim == Init /\ [][NextSim]_vars

---------------------------------------------------------------------------
(* trading/strategies/recommendations.py: build_execution_plan_view *)

\* Recommendation rows handed to build_execution_plan_view: three steps of
\* plan 1111 (two of them equal in confidence and action), one step of plan
\* 2222 and two rows without plan.  Confidences are counted in hundredths and
\* lie in the documented range 0-100.
PlanViewRecs ==
    { [id |-> "r1", plan_id |-> "1111", confidence |-> 60, action |-> "sell_put", asof_ts |-> 1],
      [id |-> "r2", plan_id |-> "1111", confidence |-> 80, action |-> "close", asof_ts |-> 2],
      [id |-> "r3", plan_id |-> "1111", confidence |-> 80, action |-> "close", asof_ts |-> 1],
      [id |-> "r4", plan_id |-> "2222", confidence |-> 80, action |-> "sell_put", asof_ts |-> 1],
      [id |-> "r5", plan_id |-> None, confidence |-> 10, action |-> "diagnostic", asof_ts |-> 1],
      [id |-> "r6", plan_id |-> None, confidence |-> 80, action |-> "close", asof_ts |-> 1] }

\* Line 224: str(rec.plan_id), or f"singleton:{rec.id}" for a row without plan.
PlanKey(rec) ==
    IF rec.plan_id # None THEN rec.plan_id
    ELSE IF rec.id = "r5" THEN "singleton:r5" ELSE "singleton:r6"

\* The texts that serve as plan keys, in the order of Python's str comparison.
PlanKeyOrder == <<"1111", "2222", "singleton:r5", "singleton:r6">>

\* a < b for two plan keys.
PlanKeyLess(a, b) ==
    \E i, j \in 1..Len(PlanKeyOrder) :
        PlanKeyOrder[i] = a /\ PlanKeyOrder[j] = b /\ i < j

\* A bug: the lower confidence comes first.
RecKeyLess_ConfidenceAscending(a, b) ==
    \/ a.confidence < b.confidence
    \/ /\ a.confidence = b.confidence
       /\ \/ ActionRank(a.action) < ActionRank(b.action)
          \/ ActionRank(a.action) = ActionRank(b.action) /\ a.asof_ts < b.asof_ts

\* Lines 233-237: the sort key (-confidence, action, asof_ts) of a is less than that of b.
RecKeyLess(a, b) ==
    \/ (0 - a.confidence) < (0 - b.confidence)
    \/ /\ a.confidence = b.confidence
       /\ \/ ActionRank(a.action) < ActionRank(b.action)
          \/ ActionRank(a.action) = ActionRank(b.action) /\ a.asof_ts < b.asof_ts

\* sorted(recs, key=...): a stable sort, done here by insertion from the left.
RECURSIVE SortRecs(_)
SortRecs(rows) ==
    IF rows = <<>> THEN <<>>
    ELSE LET front == SortRecs(SubSeq(rows, 1, Len(rows) - 1))
             x == rows[Len(rows)]
             n == Cardinality({i \in 1..Len(front) : ~ RecKeyLess(x, front[i])})
         IN SubSeq(front, 1, n) \o <<x>> \o SubSeq(front, n + 1, Len(front))

\* Lines 242-247: the greatest confidence met in the loop, starting from 0.
RECURSIVE MaxConf(_, _)
MaxConf(rows, max_conf) ==
    IF rows = <<>> THEN max_conf
    ELSE MaxConf(Tail(rows), IF rows[1].confidence > max_conf
                             THEN rows[1].confidence ELSE max_conf)

\* Lines 229-273: the plan dict of the group of input place i.
PlanOf(recommendations, i) ==
    LET idx == SelectSeq([k \in 1..Len(recommendations) |-> k],
                         LAMBDA k : PlanKey(recommendations[k]) = PlanKey(recommendations[i]))
        recs_sorted == SortRecs([n \in 1..Len(idx) |-> recommendations[idx[n]]])
    IN [plan_key |-> PlanKey(recommendations[i]),
        plan_id |-> recs_sorted[1].plan_id,
        max_confidence |-> MaxConf(recs_sorted, 0),
        num_steps |-> Len(recs_sorted),
        items |-> recs_sorted]

\* Lines 223-273: the list `plans`, one dict per key of `grouped` in the order
\* in which the keys were first met.
RECURSIVE PlansLoop(_, _, _)
PlansLoop(recommendations, i, plans) ==
    IF i > Len(recommendations) THEN plans
    ELSE IF \E j \in 1..(i - 1) : PlanKey(recommendations[j]) = PlanKey(recommendations[i])
    THEN PlansLoop(recommendations, i + 1, plans)
    ELSE PlansLoop(recommendations, i + 1, Append(plans, PlanOf(recommendations, i)))

\* Line 278: the sort key (-Decimal(str(max_confidence)), plan_key) of p is less
\* than that of q.  max_confidence is float(max_conf); a decimal of at most
\* five digits is the shortest text of its float, so the key is -max_conf.
PlanSortKeyLess(p, q) ==
    \/ (0 - p.max_confidence) < (0 - q.max_confidence)
    \/ p.max_confidence = q.max_confidence /\ PlanKeyLess(p.plan_key, q.plan_key)

\* sorted(plans, key=...)
RECURSIVE SortPlans(_)
SortPlans(plans) ==
    IF plans = <<>> THEN <<>>
    ELSE LET front == SortPlans(SubSeq(plans, 1, Len(plans) - 1))
             x == plans[Len(plans)]
             n == Cardinality({i \in 1..Len(front) : ~ PlanSortKeyLess(x, front[i])})
         IN SubSeq(front, 1, n) \o <<x>> \o SubSeq(front, n + 1, Len(front))

\* sum(len(p["items"]) for p in plans_sorted)
RECURSIVE SumItems(_)
SumItems(plans) == IF plans = <<>> THEN 0 ELSE Len(plans[1].items) + SumItems(Tail(plans))

\* build_execution_plan_view(recommendations)
BuildExecutionPlanView(recommendations) ==
    LET plans_sorted == SortPlans(PlansLoop(recommendations, 1, <<>>))
    IN [plans |-> plans_sorted, total_plans |-> Len(plans_sorted),
        total_recommendations |-> SumItems(plans_sorted)]

\* One call of build_execution_plan_view; its argument and its result are kept.
CallBuildExecutionPlanView(recommendations) ==
    /\ called' = [fn |-> "build_execution_plan_view",
                  recommendations |-> recommendations,
                  result |-> BuildExecutionPlanView(recommendations)]
    /\ UNCHANGED <<store, engine, mapped, sim, last, workers>>

\* The view built from any list of Recommendation rows.
NextPlanView ==
    /\ called.fn = None
    /\ \E recommendations \in SeqsUpTo(PlanViewRecs, MaxListLen) :
          CallBuildExecutionPlanView(recommendations)

SpecPlanView == Init /\ [][NextPlanView]_vars

---------------------------------------------------------------------------
(* trading/strategies/orchestration.py: run_all_enabled_strategies *)

\* Most enabled StrategyInstance rows in one batch.
MaxEnabled == 2

\* The querysets StrategyInstance.objects.filter(enabled=True) can yield: the
\* enabled instances in the order the store returns them.
EnabledQuerysets ==
    UNION { AccountOrders(S) : S \in {T \in SUBSET StrategyInstances :
                                         Cardinality(T) <= MaxEnabled} }

\* No batch of strategy runs.
NoBatch(op) ==
    [op |-> op, pc |-> "idle", qs |-> <<>>, asof_ts |-> 0, dry_run |-> FALSE,
     summaries |-> <<>>, raised |-> NoExc]

\* Lines 51-57: the arguments are taken and the queryset is built; an empty
\* queryset returns the empty list at once.
RunAllStart(qs, asof_ts, dry_run) ==
    /\ last.op = "init"
    /\ call.pc = "idle"
    /\ last' = [NoBatch("run_all_enabled_strategies") EXCEPT
                  !.pc = IF qs = <<>> THEN "returned" ELSE "loop",
                  !.qs = qs, !.asof_ts = asof_ts, !.dry_run = dry_run]
    /\ UNCHANGED <<store, engine, pipeline, workers>>

\* The batch stands in its loop.
InLoop == last.op = "run_all_enabled_strategies" /\ last.pc = "loop"

\* Lines 59-63: the engine is called for the next instance of the queryset.
RunAllCall ==
    /\ InLoop
    /\ call.pc = "idle"
    /\ StartRun(last.qs[Len(last.summaries) + 1], last.asof_ts, ~ last.dry_run)

\* Lines 71-75: the status of the latest StrategyRun of the instance at or
\* after asof_ts ("unknown" if there is none).
LastRunStatus(inst, asof_ts) ==
    LET mine == {i \in 1..Len(runs) : /\ runs[i].strategy_instance = inst
                                      /\ runs[i].run_ts >= asof_ts}
    IN IF mine = {} THEN "unknown"
       ELSE runs[CHOOSE i \in mine :
                    \A j \in mine : runs[i].run_ts > runs[j].run_ts
                                    \/ (runs[i].run_ts = runs[j].run_ts /\ i >= j)].status

\* Lines 65-91: the engine has returned; the summary of the instance is
\* appended, and after the last instance the summaries are returned.
RunAllSummarise ==
    /\ InLoop
    /\ call.pc = "returned"
    /\ LET inst == call.instance
           summary == [instance_id |-> inst, client |-> InstanceClient(inst),
                       status |-> LastRunStatus(inst, last.asof_ts),
                       num_actions |-> Len(call.returned),
                       num_recommendations |->
                           Len(SelectSeq(recs, LAMBDA r : /\ r.strategy_instance = inst
                                                          /\ r.asof_ts >= last.asof_ts)),
                       dry_run |-> last.dry_run]
           summaries == Append(last.summaries, summary)
       IN last' = [last EXCEPT !.summaries = summaries,
                               !.pc = IF Len(summaries) = Len(last.qs)
                                      THEN "returned" ELSE "loop"]
    /\ call' = NoCall
    /\ UNCHANGED <<store, runs, recs, pipeline, workers>>

\* Lines 59-63: the engine has raised; nothing catches the exception, so it
\* leaves run_all_enabled_strategies and the summaries are lost.
RunAllRaise ==
    /\ InLoop
    /\ call.pc = "raised"
    /\ last' = [last EXCEPT !.pc = "raised", !.raised = call.raised]
    /\ call' = NoCall
    /\ UNCHANGED <<store, runs, recs, pipeline, workers>>

\* One batch over any enabled instances, as a dry run or not, for every
\* behaviour of the strategy code.
NextRunAll ==
    \/ \E qs \in EnabledQuerysets, asof_ts \in AsofChoices, dry_run \in BOOLEAN :
          RunAllStart(qs, asof_ts, dry_run)
    \/ RunAllCall
    \/ RunAllSummarise
    \/ RunAllRaise
    \/ InLoop /\ \E out \in StrategyOutputs : EvaluateStrategy(out)
    \/ InLoop /\ RecordRecommendation
    \/ InLoop /\ SaveOk
    \/ InLoop /\ SaveError

SpecRunAll == Init /\ [][NextRunAll]_vars

---------------------------------------------------------------------------
(* strategies/management/commands/run_strategies.py *)

\* Lines 39-82 of handle, without --strategy: with --instance-id the instance
\* is looked up among the enabled ones (CommandError when it is not there);
\* then, with or without --instance-id, run_all_enabled_strategies is called
\* with strategy_slug=None, that is, on the queryset of all enabled instances.
HandleRunStrategies(qs, instance_id, asof_ts, dry_run) ==
    /\ last.op = "init"
    /\ call.pc = "idle"
    /\ called.fn = None
    /\ LET enabled == {qs[i] : i \in 1..Len(qs)}
           found == instance_id = None \/ instance_id \in enabled
       IN /\ called' = [fn |-> "run_strategies", instance_id |-> instance_id,
                        dry_run |-> dry_run, summaries |-> <<>>,
                        pc |-> IF found THEN "running" ELSE "CommandError"]
          /\ last' = IF found
                     THEN [NoBatch("run_all_enabled_strategies") EXCEPT
                             !.pc = IF qs = <<>> THEN "returned" ELSE "loop",
                             !.qs = qs, !.asof_ts = asof_ts, !.dry_run = dry_run]
                     ELSE last
    /\ UNCHANGED <<store, engine, mapped, sim, workers>>

\* The command waits for run_all_enabled_strategies.
CommandRunning == called.fn = "run_strategies" /\ called.pc = "running"

\* Lines 71-72 and 84-113: the summaries are returned; with --instance-id
\* those of other instances are dropped; the rest is printed.
HandleSummaries ==
    /\ CommandRunning
    /\ last.op = "run_all_enabled_strategies" /\ last.pc = "returned"
    /\ called' = [called EXCEPT
                    !.pc = "done",
                    !.summaries =
                        IF called.instance_id = None THEN last.summaries
                        ELSE SelectSeq(last.summaries,
                                       LAMBDA s : s.instance_id = called.instance_id)]
    /\ UNCHANGED <<store, engine, mapped, sim, last, workers>>

\* An exception of run_all_enabled_strategies leaves the command.
HandleRaise ==
    /\ CommandRunning
    /\ last.op = "run_all_enabled_strategies" /\ last.pc = "raised"
    /\ called' = [called EXCEPT !.pc = "raised"]
    /\ UNCHANGED <<store, engine, mapped, sim, last, workers>>

\* One run of the command, with or without --instance-id, over any enabled
\* instances and for every behaviour of the strategy code.
NextCommand ==
    \/ \E qs \in EnabledQuerysets, instance_id \in StrategyInstances \cup {None},
          asof_ts \in AsofChoices, dry_run \in BOOLEAN :
          HandleRunStrategies(qs, instance_id, asof_ts, dry_run)
    \/ RunAllCall
    \/ RunAllSummarise
    \/ RunAllRaise
    \/ InLoop /\ \E out \in StrategyOutputs : EvaluateStrategy(out)
    \/ InLoop /\ RecordRecommendation
    \/ InLoop /\ SaveOk
    \/ InLoop /\ SaveError
    \/ HandleSummaries
    \/ HandleRaise

SpecCommand == Init /\ [][NextCommand]_vars

---------------------------------------------------------------------------
(* trading/strategies/safety.py: actions that carry a notional *)

\* act.params.get("notional") read by Decimal(str(notional)): the amount, or
\* nothing when the parameter is missing, None or not a number.
ParsedNotional(act) ==
    IF "notional" \in DOMAIN act.params /\ act.params.notional.parsable
    THEN act.params.notional.amount ELSE 0

\* The sum of the notionals of a list of actions.
RECURSIVE SumNotional(_)
SumNotional(actions) ==
    IF actions = <<>> THEN 0
    ELSE ParsedNotional(Head(actions)) + SumNotional(Tail(actions))

\* stats["total_notional"]: accumulated over the groups cut to max_per_plan,
\* before the list is cut to max_recommendations; compared with nothing.
StatsTotalNotional(actions, limits) ==
    SumNotional(SafetyLoop(actions, limits, 1, <<>>))

\* PlannedAction objects with parameters: two legs of plan A with notionals
\* 100 and 150, one action whose notional is not a number, one without.
NotionalObjects ==
    { [id |-> "a1", plan_id |-> "A", params |-> [notional |-> [parsable |-> TRUE, amount |-> 100]]],
      [id |-> "a2", plan_id |-> "A", params |-> [notional |-> [parsable |-> TRUE, amount |-> 150]]],
      [id |-> "n1", plan_id |-> None, params |-> [notional |-> [parsable |-> FALSE, amount |-> 0]]],
      [id |-> "n2", plan_id |-> None, params |-> [contracts |-> 1]] }

\* SafetyLimits with a maximum aggregate notional.
NotionalLimitsSet ==
    { [max_recommendations |-> r, max_per_plan |-> p, max_total_notional |-> n] :
        r \in {1, MaxListLen}, p \in {1, 2}, n \in {0, 200, 1000} }

\* The filter applied to any list of these actions under any of these limits.
NextNotional ==
    /\ called.fn = None
    /\ \E actions \in SeqsUpTo(NotionalObjects, MaxListLen), limits \in NotionalLimitsSet :
          CallApplySafetyLimits(actions, limits)

SpecNotional == Init /\ [][NextNotional]_vars

---------------------------------------------------------------------------
(* trading/strategies/executor.py: build_strategy_context on a filled store *)

\* One call of build_strategy_context; its arguments and its result are kept.
CallBuildStrategyContext(inst, asof_ts) ==
    /\ called' = [fn |-> "build_strategy_context", instance |-> inst,
                  asof_ts |-> asof_ts, result |-> BuildStrategyContext(inst, asof_ts)]
    /\ UNCHANGED <<store, engine, mapped, sim, last, workers>>

\* AccountSnapshotData records of three moments, each with balances of its own.
BalanceDataSet ==
    { [broker_account_code |-> "", currency |-> "USD", asof_ts |-> x[1],
       cash |-> x[2], buying_power |-> x[3], maintenance_margin |-> x[4],
       used_margin |-> x[5], extras |-> "ibkr"]
      : x \in { <<1, "100000", "300000", "50000", "10000">>,
                <<2, "90000", "250000", "40000", "9000">>,
                <<3, "80000", "200000", "30000", "8000">> } }

\* Snapshots of the accounts U1 and U2 are ingested in any order; then a
\* context is built for any instance.
NextBalances ==
    \/ /\ called.fn = None
       /\ \E ba \in {"U1", "U2"}, sd \in BalanceDataSet : SyncAccountSnapshot(ba, <<sd>>)
    \/ /\ called.fn = None
       /\ \E inst \in StrategyInstances, asof_ts \in AsofChoices :
             CallBuildStrategyContext(inst, asof_ts)

SpecBalances == Init /\ [][NextBalances]_vars

---------------------------------------------------------------------------
(* executor.py: build_strategy_context on the orders and fills of two accounts *)

\* OrderData records: two orders, each reported as submitted, filled or cancelled.
ContextOrderDataSet ==
    { [broker_account_code |-> "", con_id |-> None, ibkr_order_id |-> o,
       side |-> "SELL", order_type |-> "LMT", limit_price |-> "2.50",
       aux_price |-> None, tif |-> "DAY", status |-> s,
       created_ts |-> 1, updated_ts |-> IF s = "Submitted" THEN 1 ELSE 2, raw |-> "ibkr"]
      : o \in {"o1", "o2"}, s \in {"Submitted", "Filled", "Cancelled"} }

\* Accounts U1 and U2 belong to one client.  Their orders and the fill of
\* order o1 are ingested in any order, U1 also gets a position, and then a
\* context is built for any instance.
NextContext ==
    \/ /\ called.fn = None
       /\ \E od \in ContextOrderDataSet : SyncOrders("U1", <<od>>)
    \/ /\ called.fn = None
       /\ \E od \in {d \in ContextOrderDataSet : d.ibkr_order_id = "o1"} : SyncOrders("U2", <<od>>)
    \/ /\ called.fn = None
       /\ \E ba \in {"U1", "U2"} :
             \E ed \in {d \in ExecutionDataSet : /\ d.broker_account_code = ""
                                                /\ d.ibkr_exec_id = "e1"} :
                SyncExecutions(ba, <<ed>>)
    \/ /\ called.fn = None
       /\ \E pd \in {d \in PositionDataSet : /\ d.exchange # None /\ d.con_id # None
                                            /\ d.asof_ts = 1} :
             SyncPositions("U1", None, <<pd>>)
    \/ /\ called.fn = None
       /\ \E inst \in StrategyInstances, asof_ts \in AsofChoices :
             CallBuildStrategyContext(inst, asof_ts)

SpecContext == Init /\ [][NextContext]_vars

---------------------------------------------------------------------------
(* Properties of the trade sync jobs *)

\* The records of the last batch that the job did not pass over.
Seen(r) == SelectSeq(r.batch, LAMBDA d : ForAccount(r.acct, d))

\* No two Execution rows carry the same fill id.
ExecutionIdUnique ==
    \A i, j \in 1..Len(executions) :
        i # j => executions[i].ibkr_exec_id # executions[j].ibkr_exec_id

\* An execution sync of a connected account never raises and adds as many rows
\* as it reports; when every fill it looked at was stored before the run, it
\* reports created = 0, counts every fill as skipped and changes no row.
ExecutionSyncStep ==
    (last'.op = "sync_executions" /\ BrokerSupported(last'.acct)) =>
        LET seen == Seen(last')
            stored == \A i \in 1..Len(seen) : \E j \in 1..Len(executions) :
                          executions[j].ibkr_exec_id = seen[i].ibkr_exec_id
        IN /\ last'.ok
           /\ Len(executions') = Len(executions) + last'.created
           /\ last'.total = Len(seen)
           /\ stored => /\ last'.created = 0
                         /\ last'.other = Len(seen)
                         /\ executions' = executions

\* C1: after any sequence of execution syncs (repeated broker output, a fill
\* id repeated inside one batch, the same fill reported for two accounts) the
\* store holds at most one Execution row per fill id, and a run whose fills
\* are all stored already reports created = 0 and leaves the table as it was.
ExecutionSyncIdempotent == []ExecutionIdUnique /\ [][ExecutionSyncStep]_vars

\* A run over two fills that were both stored before it: nothing created.
ExecutionSyncIdempotentWitness ==
    /\ last.op = "sync_executions" /\ last.ok
    /\ Len(Seen(last)) = 2
    /\ last.created = 0 /\ last.other = 2
    /\ \A i \in 1..2 : \E j \in 1..Len(executions) :
           executions[j].ibkr_exec_id = Seen(last)[i].ibkr_exec_id

\* No two Order rows carry the same (broker account, broker order id).
OrderKeyUnique ==
    \A i, j \in 1..Len(orders) :
        i # j => ~ (/\ orders[i].broker_account = orders[j].broker_account
                    /\ orders[i].ibkr_order_id = orders[j].ibkr_order_id)

\* An order sync of a connected account never raises; the keys it sees for the
\* first time are created, every other sight is an update; the table grows by
\* the created rows only, the rows that existed stay where they are, and the
\* row of every key seen carries the data of the last sight of that key.
OrderSyncStep ==
    (last'.op = "sync_orders" /\ BrokerSupported(last'.acct)) =>
        LET ba == last'.acct
            seen == Seen(last')
            keys == {seen[i].ibkr_order_id : i \in 1..Len(seen)}
            fresh == {k \in keys : ~ \E j \in 1..Len(orders) :
                          /\ orders[j].broker_account = ba
                          /\ orders[j].ibkr_order_id = k}
            LastSight(k) ==
                seen[CHOOSE i \in 1..Len(seen) :
                        /\ seen[i].ibkr_order_id = k
                        /\ \A j \in (i + 1)..Len(seen) : seen[j].ibkr_order_id # k]
        IN /\ last'.ok
           /\ last'.created = Cardinality(fresh)
           /\ last'.other = Len(seen) - Cardinality(fresh)
           /\ Len(orders') = Len(orders) + Cardinality(fresh)
           /\ \A j \in 1..Len(orders) :
                 /\ orders'[j].broker_account = orders[j].broker_account
                 /\ orders'[j].ibkr_order_id = orders[j].ibkr_order_id
                 /\ (orders[j].broker_account # ba \/ orders[j].ibkr_order_id \notin keys)
                        => orders'[j] = orders[j]
           /\ \A k \in keys : \E j \in 1..Len(orders') :
                 /\ orders'[j].broker_account = ba
                 /\ orders'[j].ibkr_order_id = k
                 /\ orders'[j].status = LastSight(k).status
                 /\ orders'[j].limit_price = LastSight(k).limit_price
                 /\ orders'[j].aux_price = LastSight(k).aux_price
                 /\ orders'[j].created_ts = LastSight(k).created_ts
                 /\ orders'[j].updated_ts = LastSight(k).updated_ts

\* C2: after any sequence of order syncs there is at most one Order row per
\* (broker account, broker order id); the first sight of a key creates the row,
\* every later sight updates that row in place to the broker's latest status,
\* prices and timestamps, and the table does not grow on a later sight.
OrderSyncUpsert == []OrderKeyUnique /\ [][OrderSyncStep]_vars

\* An order first synced as Submitted was synced again as Filled: one row, updated.
OrderSyncUpsertWitness ==
    /\ last.op = "sync_orders" /\ last.ok
    /\ last.created = 0 /\ last.other = 1
    /\ Len(orders) = 1
    /\ orders[1].status = "Filled" /\ orders[1].updated_ts = 2

---------------------------------------------------------------------------
(* Properties of the option-event, position and account snapshot sync jobs *)

\* No two OptionEvent rows share (account, contract, kind, timestamp, quantity).
OptionEventKeyUnique ==
    \A i, j \in 1..Len(optionEvents) :
        i # j => ~ (/\ optionEvents[i].broker_account = optionEvents[j].broker_account
                    /\ optionEvents[i].ibkr_con = optionEvents[j].ibkr_con
                    /\ optionEvents[i].event_type = optionEvents[j].event_type
                    /\ optionEvents[i].event_ts = optionEvents[j].event_ts
                    /\ optionEvents[i].qty = optionEvents[j].qty)

\* An option-event sync that directly follows a sync of the same account with
\* the same broker output creates nothing and counts every event it looked at
\* as skipped.
OptionEventResyncStep ==
    (/\ last.op = "sync_option_events" /\ last.ok
     /\ last'.op = "sync_option_events"
     /\ last'.acct = last.acct /\ last'.batch = last.batch) =>
        /\ last'.ok
        /\ last'.created = 0
        /\ last'.other = Len(Seen(last'))
        /\ optionEvents' = optionEvents

\* C3: running option-event sync twice for one account with identical broker
\* output creates no row on the second run (created = 0, every event skipped
\* as existing), and no two OptionEvent rows ever share the natural key
\* (account, contract, kind, timestamp, quantity).
OptionEventSyncDeduplicates == []OptionEventKeyUnique /\ [][OptionEventResyncStep]_vars

\* A second run over two events of the account, both skipped, with a stored
\* event that is linked to its contract record.
OptionEventSyncDeduplicatesWitness ==
    /\ last.op = "sync_option_events" /\ last.ok
    /\ last.created = 0 /\ last.other = 2
    /\ \E i \in 1..Len(optionEvents) :
          /\ optionEvents[i].broker_account = last.acct
          /\ optionEvents[i].ibkr_con # None

\* C4 as claimed: a position sync that directly follows a successful sync of
\* the same account with the same single PositionData succeeds as well, creates
\* no Instrument and no contract record, and appends one Position row.
PositionResyncStep ==
    (/\ last.op = "sync_positions" /\ last.ok /\ Len(last.batch) = 1
     /\ last'.op = "sync_positions"
     /\ last'.acct = last.acct /\ last'.batch = last.batch) =>
        /\ last'.ok
        /\ instruments' = instruments
        /\ contracts' = contracts
        /\ Len(positions') = Len(positions) + 1

PositionResyncAppends == [][PositionResyncStep]_vars

\* C5 as claimed: every account snapshot sync that gets at least one snapshot
\* appends one row built from the first snapshot and changes no other row, also
\* when the output repeats; with no snapshot it raises and changes nothing.
SnapshotSyncStep ==
    (last'.op = "sync_account_snapshot" /\ BrokerSupported(last'.acct)) =>
        IF last'.batch = <<>>
        THEN ~ last'.ok /\ snapshots' = snapshots
        ELSE /\ last'.ok
             /\ Len(snapshots') = Len(snapshots) + 1
             /\ SubSeq(snapshots', 1, Len(snapshots)) = snapshots
             /\ snapshots'[Len(snapshots')].broker_account = last'.acct
             /\ snapshots'[Len(snapshots')].asof_ts = last'.batch[1].asof_ts
             /\ snapshots'[Len(snapshots')].cash = last'.batch[1].cash

SnapshotSyncAppends == [][SnapshotSyncStep]_vars

---------------------------------------------------------------------------
(* Properties of run_strategy_instance *)

\* The StrategyRun rows created since the call in `call` began.
RunsOfCall == {i \in 1..Len(runs) : i > call.runs_before}

\* The exceptions each part of the try block can raise.
PhaseExceptions(phase) ==
    CASE phase = "context" -> {"ValueError"}
      [] phase = "evaluate" -> {"RuntimeError", "TypeError"}
      [] phase = "persist" -> {"IntegrityError", "ValidationError"}
      [] OTHER -> {}

Terminal(status) == status \in {"ok", "error"}

\* Only the run of the call under way is in_progress; the run of a call that
\* returned is ok, the run of a call that raised is error.
RunStatusMatchesOutcome ==
    /\ \A i \in 1..Len(runs) :
          /\ runs[i].status \in {"in_progress", "ok", "error"}
          /\ runs[i].status = "in_progress" => (Running /\ call.run = i)
    /\ Running => runs[call.run].status = "in_progress"
    /\ call.pc = "returned" => runs[call.run].status = "ok"
    /\ (call.pc = "raised" /\ call.run # NoRow) => runs[call.run].status = "error"

\* A step creates at most one run, in_progress; it never changes a terminal
\* status; and a run leaves in_progress only in the step that ends its call.
RunStatusStep ==
    /\ Len(runs') \in {Len(runs), Len(runs) + 1}
    /\ Len(runs') > Len(runs) => runs'[Len(runs')].status = "in_progress"
    /\ \A i \in 1..Len(runs) :
          /\ Terminal(runs[i].status) => runs'[i] = runs[i]
          /\ runs'[i].status # runs[i].status =>
                /\ runs[i].status = "in_progress" /\ Terminal(runs'[i].status)
                /\ Running /\ call.run = i
                /\ call'.pc \in {"returned", "raised"}

---------------------------------------------------------------------------
(* Properties of the execution mapper *)

\* A parameter that carries a value: the key is there and holds neither None
\* nor the empty text.
Given(params, key) == params[key] \notin {Absent, None, ""}

\* Texts that denote a strictly positive number, and the number in thousandths.
PositiveNumbers == [t \in {"1", "2", "2.50"} |->
                       CASE t = "1" -> 1000 [] t = "2" -> 2000 [] OTHER -> 2500]

\* The four conditions of the mapping rules: executable verb, account code,
\* a strictly positive qty/quantity parameter, a resolvable contract id.
Mappable(action, broker_account) ==
    /\ action.action \in {"sell_put", "sell_call", "buy_to_close", "sell_to_close",
                          "buy_shares", "sell_shares"}
    /\ broker_account # None /\ AccountCode(broker_account) # ""
    /\ \E k \in {"qty", "quantity"} : action.params[k] \in DOMAIN PositiveNumbers
    /\ \/ action.ibkr_con = "999999"
       \/ action.params.con_id = " 265598 "

\* C8 as claimed: the mapper returns an intent only for a mappable action, and
\* for every action that is not mappable it raises ExecutionMappingError.
MapperIntentOrMappingError ==
    mapped.outcome # "none" =>
        /\ mapped.outcome = "return" => Mappable(mapped.action, mapped.broker_account)
        /\ ~ Mappable(mapped.action, mapped.broker_account) =>
              (mapped.outcome = "raise" /\ mapped.exc = "ExecutionMappingError")

\* The parameter the quantity is read from: qty, or quantity when qty carries no value.
QuantityParameter(params) == IF Given(params, "qty") THEN params.qty ELSE params.quantity

\* C10: every intent the mapper returns has side SELL for sell_put, sell_call,
\* sell_shares and sell_to_close and BUY for buy_to_close and buy_shares; when
\* no order_type is given its order type is LMT if a limit_price is given and
\* MKT otherwise; its time-in-force is DAY unless a tif is given; its quantity
\* and limit price are the numbers of the parameters (no limit price when none
\* is given); its contract id is that of the attached contract if there is one
\* and the con_id parameter otherwise.
MapperIntentFields ==
    mapped.outcome = "return" =>
        LET a == mapped.action
            p == a.params
            i == mapped.intent
        IN /\ i.side = IF a.action \in {"sell_put", "sell_call", "sell_shares", "sell_to_close"}
                       THEN "SELL" ELSE "BUY"
           /\ a.action \in {"sell_put", "sell_call", "sell_shares", "sell_to_close",
                            "buy_to_close", "buy_shares"}
           /\ ~ Given(p, "order_type") =>
                 i.order_type = IF Given(p, "limit_price") THEN "LMT" ELSE "MKT"
           /\ p.order_type = "stp" => i.order_type = "STP"
           /\ ~ Given(p, "tif") => i.tif = "DAY"
           /\ p.tif = "gtc" => i.tif = "GTC"
           /\ QuantityParameter(p) \in DOMAIN PositiveNumbers
           /\ i.quantity = PositiveNumbers[QuantityParameter(p)]
           /\ IF Given(p, "limit_price")
              THEN /\ p.limit_price \in DOMAIN PositiveNumbers
                   /\ i.limit_price = PositiveNumbers[p.limit_price]
              ELSE i.limit_price = None
           /\ i.con_id = IF a.ibkr_con = "999999" THEN "999999" ELSE "265598"
           /\ i.broker_account_code = mapped.broker_account

\* sell_put, quantity 1 with a quantity alias of 2, limit price 2.50, an
\* attached contract and a con_id parameter: SELL LMT 1 @ 2.50 DAY on the
\* attached contract.
MapperIntentFieldsWitness ==
    /\ mapped.outcome = "return"
    /\ mapped.action.action = "sell_put"
    /\ mapped.action.params.qty = "1" /\ mapped.action.params.quantity = "2"
    /\ mapped.action.params.limit_price = "2.50"
    /\ mapped.action.params.order_type = Absent /\ mapped.action.params.tif = Absent
    /\ mapped.action.ibkr_con = "999999" /\ mapped.action.params.con_id = " 265598 "
    /\ mapped.intent.side = "SELL" /\ mapped.intent.order_type = "LMT"
    /\ mapped.intent.quantity = 1000 /\ mapped.intent.limit_price = 2500
    /\ mapped.intent.tif = "DAY" /\ mapped.intent.con_id = "999999"

---------------------------------------------------------------------------
(* Properties of zero-quantity actions *)

\* The quantity parameter of a params dict is 0: qty when it carries a value,
\* else quantity, is a text that denotes zero.
ZeroQuantity(params) ==
    (IF params.qty \notin {Absent, None, ""} THEN params.qty ELSE params.quantity)
        \in {"0", "0.00"}

\* The Recommendation row a simulated Order was made from.
RecOfOrder(o) == recs[o.raw.rec_id]

\* C9: for every broker account and every action verb, the mapper returns no
\* intent for a planned action whose quantity parameter is 0, and no Order, no
\* Execution (with or without fee) and no Position row made by simulate_day
\* goes back to a recommendation whose quantity parameter is 0.
ZeroQuantityYieldsNothing ==
    /\ mapped.outcome = "return" => ~ ZeroQuantity(mapped.action.params)
    /\ \A i \in 1..Len(orders) : ~ ZeroQuantity(RecOfOrder(orders[i]).params)
    /\ \A i \in 1..Len(executions) :
          /\ executions[i].qty # 0
          /\ ~ ZeroQuantity(RecOfOrder(orders[executions[i].order]).params)
    /\ \A i \in 1..Len(positions) :
          \E j \in 1..Len(orders) :
             /\ orders[j].created_ts = positions[i].asof_ts
             /\ RecOfOrder(orders[j]).broker_account = positions[i].broker_account
             /\ RecOfOrder(orders[j]).underlier = positions[i].instrument
             /\ ~ ZeroQuantity(RecOfOrder(orders[j]).params)
    /\ Len(positions) <= Len(orders)
    /\ Len(executions) <= Len(orders)

\* simulate_day --execute completed on a day with two recommendations for the
\* SIM account, one of quantity 0 and one of quantity 1: one Order, one
\* Execution with a fee and one Position, all made from the second.
ZeroQuantityYieldsNothingWitness ==
    /\ sim.outcome = "complete" /\ sim.execute
    /\ sim.created_orders = 1 /\ sim.created_execs = 1 /\ sim.created_positions = 1
    /\ Len(recs) = 2 /\ Len(orders) = 1 /\ Len(executions) = 1 /\ Len(positions) = 1
    /\ \A i \in 1..2 : recs[i].broker_account = "S1"
    /\ \E i \in 1..2 : recs[i].params.qty = "0"
    /\ RecOfOrder(orders[1]).params.qty = "1"
    /\ executions[1].fee > 0

---------------------------------------------------------------------------
(* Properties of the safety filter *)

\* Places i and j of an action list belong to one plan group: both name the
\* same plan, or neither names a plan and both hold the same action.
SamePlan(actions, i, j) ==
    LET planless(k) == actions[k].plan_id \in {None, ""}
    IN IF planless(i) \/ planless(j)
       THEN planless(i) /\ planless(j) /\ actions[i].id = actions[j].id
       ELSE actions[i].plan_id = actions[j].plan_id

\* The place where the group of place i is first met.
FirstOfPlan(actions, i) ==
    CHOOSE f \in 1..i : /\ SamePlan(actions, f, i)
                        /\ \A g \in 1..(f - 1) : ~ SamePlan(actions, g, i)

\* Place i is among the first max_per_plan places of its group.
KeptInPlan(actions, limits, i) ==
    Cardinality({j \in 1..i : SamePlan(actions, j, i)}) <= limits.max_per_plan

\* Place i comes before place j once the groups are laid end to end.
GroupedBefore(actions, i, j) ==
    \/ FirstOfPlan(actions, i) < FirstOfPlan(actions, j)
    \/ FirstOfPlan(actions, i) = FirstOfPlan(actions, j) /\ i < j

\* C11: apply_safety_limits returns the first max_recommendations elements of
\* the list made by grouping the actions by plan id (an action without plan id
\* is a group of its own), keeping the first max_per_plan actions of each group
\* in their original order, and laying the groups end to end in the order in
\* which they are first met.
SafetyFilterResult ==
    called.fn = "apply_safety_limits" =>
        LET actions == called.actions
            limits == called.limits
            kept == {i \in 1..Len(actions) : KeptInPlan(actions, limits, i)}
            place(i) == 1 + Cardinality({k \in kept : GroupedBefore(actions, k, i)})
            size == IF Cardinality(kept) < limits.max_recommendations
                    THEN Cardinality(kept) ELSE limits.max_recommendations
        IN /\ Len(called.result) = size
           /\ \A i \in kept : place(i) <= size => called.result[place(i)] = actions[i]

\* Groups of sizes 3 (plan A: a1, a2, a1 again), 1 (no plan) with the legs of
\* plan A apart, max_per_plan 2 and max_recommendations 2: the two first legs
\* of plan A are returned, the action between them is not.
SafetyFilterResultWitness ==
    /\ called.fn = "apply_safety_limits"
    /\ called.actions = << [id |-> "a1", plan_id |-> "A"], [id |-> "n1", plan_id |-> None],
                           [id |-> "a2", plan_id |-> "A"], [id |-> "a1", plan_id |-> "A"] >>
    /\ called.limits = [max_recommendations |-> 2, max_per_plan |-> 2]
    /\ called.result = << [id |-> "a1", plan_id |-> "A"], [id |-> "a2", plan_id |-> "A"] >>

---------------------------------------------------------------------------
(* Properties of the execution plan view *)

\* Two Recommendation rows belong to one plan: they share a plan id, or they
\* are one and the same row without plan id.
GroupedTogether(a, b) ==
    IF a.plan_id = None \/ b.plan_id = None
    THEN a.plan_id = None /\ b.plan_id = None /\ a.id = b.id
    ELSE a.plan_id = b.plan_id

\* Item a may stand before item b inside a group: higher confidence first,
\* then the action name in the alphabet, then the earlier as-of timestamp.
ItemOrdered(a, b) ==
    \/ a.confidence > b.confidence
    \/ /\ a.confidence = b.confidence
       /\ \/ ActionRank(a.action) < ActionRank(b.action)
          \/ ActionRank(a.action) = ActionRank(b.action) /\ a.asof_ts <= b.asof_ts

\* The greatest confidence among the items of a group.
TopConfidence(items) ==
    CHOOSE c \in {items[i].confidence : i \in 1..Len(items)} :
        \A i \in 1..Len(items) : items[i].confidence <= c

\* How often row x occurs in a list.
Occurrences(rows, x) == Cardinality({i \in 1..Len(rows) : rows[i] = x})

\* C12: build_execution_plan_view puts recommendations that share a plan id
\* into one group and every recommendation without plan id into a group of its
\* own, orders the items of a group by (confidence descending, action name
\* ascending, as-of ascending), orders the groups by (maximum confidence
\* descending, group key ascending), and reports total_recommendations equal
\* to the number of input recommendations.
PlanViewGroupsAndOrders ==
    called.fn = "build_execution_plan_view" =>
        LET input == called.recommendations
            view == called.result
            plans == view.plans
            N == Len(plans)
        IN /\ view.total_recommendations = Len(input)
           /\ view.total_plans = N
           /\ \A x \in PlanViewRecs :
                 \E counts \in [1..N -> 0..Len(input)] :
                    /\ \A p \in 1..N : counts[p] = Occurrences(plans[p].items, x)
                    /\ Cardinality({p \in 1..N : counts[p] > 0})
                          = IF Occurrences(input, x) > 0 THEN 1 ELSE 0
                    /\ \A p \in 1..N : counts[p] > 0 => counts[p] = Occurrences(input, x)
           /\ \A p, q \in 1..N : \A i \in 1..Len(plans[p].items), j \in 1..Len(plans[q].items) :
                 (p = q) <=> GroupedTogether(plans[p].items[i], plans[q].items[j])
           /\ \A p \in 1..N :
                 /\ plans[p].items # <<>>
                 /\ plans[p].num_steps = Len(plans[p].items)
                 /\ \A i, j \in 1..Len(plans[p].items) :
                       i < j => ItemOrdered(plans[p].items[i], plans[p].items[j])
                 /\ plans[p].max_confidence = TopConfidence(plans[p].items)
                 /\ plans[p].plan_key = IF plans[p].items[1].plan_id # None
                                        THEN plans[p].items[1].plan_id
                                        ELSE IF plans[p].items[1].id = "r5"
                                        THEN "singleton:r5" ELSE "singleton:r6"
           /\ \A p, q \in 1..N :
                 p < q => \/ TopConfidence(plans[p].items) > TopConfidence(plans[q].items)
                          \/ /\ TopConfidence(plans[p].items) = TopConfidence(plans[q].items)
                             /\ PlanKeyLess(plans[p].plan_key, plans[q].plan_key)

\* Confidences 0.60 and 0.80 under plan 1111 and a row of confidence 0.10
\* without plan, given in that order: two groups, the plan first, its 0.80
\* item first.
PlanViewGroupsAndOrdersWitness ==
    /\ called.fn = "build_execution_plan_view"
    /\ Len(called.recommendations) = 3
    /\ called.recommendations[1].id = "r1"
    /\ called.recommendations[2].id = "r2"
    /\ called.recommendations[3].id = "r5"
    /\ called.result.total_plans = 2 /\ called.result.total_recommendations = 3
    /\ called.result.plans[1].plan_key = "1111"
    /\ called.result.plans[1].items[1].id = "r2"
    /\ called.result.plans[1].items[2].id = "r1"
    /\ called.result.plans[2].items[1].id = "r5"

---------------------------------------------------------------------------
(* Properties of the sync jobs as units of work *)

\* C13: when a sync job of an account raises part-way through the broker's
\* records, after earlier records were created or updated, the store is
\* afterwards what it was before the run.
SyncJobAtomicStep ==
    (last'.op \in {"sync_orders", "sync_executions", "sync_positions"} /\ ~ last'.ok)
        => store' = store

SyncJobAtomic == [][SyncJobAtomicStep]_vars

\* An order sync of two records into an empty Order table raised on the second
\* record, after the first had been created: the table is empty again.
SyncJobAtomicWitness ==
    /\ last.op = "sync_orders" /\ ~ last.ok /\ last.err = "IntegrityError"
    /\ Len(last.batch) = 2
    /\ last.batch[1].ibkr_order_id = "o1" /\ last.batch[1].side = "SELL"
    /\ last.batch[2].side = None
    /\ orders = <<>>

---------------------------------------------------------------------------
(* Properties of a strategy run as a unit of work *)

---------------------------------------------------------------------------
(* Properties of the batch entry points *)

\* C15 as claimed: in every batch entry point a failure while syncing one
\* account keeps no other account of the batch from being synced, and the
\* failure is reported in the batch result: the run ends without exception and
\* every account of the batch has had its job run.
BatchIsolatesAccountFailures ==
    last.op \in {"sync_all_ibkr_account_snapshots", "sync_ibkr_account_snapshots",
                 "sync_ibkr_orders", "sync_ibkr_option_events"} =>
        /\ last.raised = None
        /\ \A ba \in last.accounts :
              \E i \in 1..Len(last.outcomes) : last.outcomes[i].acct = ba

---------------------------------------------------------------------------
(* Properties of run_all_enabled_strategies *)

\* C16 as claimed: a batch of strategy runs always ends by returning one
\* summary for each enabled instance, in queryset order, whether or not a run
\* failed; the summary of an instance whose run failed has status "error".
RunAllIsolatesInstanceFailures ==
    (last.op = "run_all_enabled_strategies" /\ last.pc \in {"returned", "raised"}) =>
        /\ last.pc = "returned"
        /\ Len(last.summaries) = Len(last.qs)
        /\ \A i \in 1..Len(last.qs) :
              /\ last.summaries[i].instance_id = last.qs[i]
              /\ last.summaries[i].status \in {"ok", "error"}

---------------------------------------------------------------------------
(* Properties of sync runs executing at the same time *)

\* Both concurrent runs have ended.
BothEnded == \A w \in Workers : workers[w].pc \in {"returned", "raised"}

\* The table a single run of the job leaves, started on the rows `before`.
SingleRun(job, ba, batch, before) ==
    LET start == [ok |-> TRUE, err |-> None, rows |-> before, created |-> 0, other |-> 0]
    IN IF ~ BrokerSupported(ba) THEN before
       ELSE IF job = "sync_executions"
       THEN LET acc == ExecutionSyncLoop(ba, batch, 1, start)
            IN IF acc.ok THEN acc.rows ELSE before
       ELSE OptionEventSyncLoop(ba, batch, 1, start).rows

\* C17, for fills: once two concurrent runs of the execution sync on the same
\* broker output have ended, the Execution table is what a single run leaves,
\* and no two rows share a fill id.
ConcurrentExecutionSyncsAsOne ==
    (BothEnded /\ workers[1].job = "sync_executions") =>
        /\ executions = SingleRun("sync_executions", workers[1].ba, workers[1].batch,
                                  workers[1].before)
        /\ \A i, j \in 1..Len(executions) :
              executions[i].ibkr_exec_id = executions[j].ibkr_exec_id => i = j

\* C17, for option events: once two concurrent runs of the option-event sync
\* on the same broker output have ended, the OptionEvent table is what a
\* single run leaves, and no two rows share (account, contract, kind,
\* timestamp, quantity).
ConcurrentOptionEventSyncsAsOne ==
    (BothEnded /\ workers[1].job = "sync_option_events") =>
        /\ optionEvents = SingleRun("sync_option_events", workers[1].ba,
                                    workers[1].batch, workers[1].before)
        /\ \A i, j \in 1..Len(optionEvents) :
              ( /\ optionEvents[i].broker_account = optionEvents[j].broker_account
                /\ optionEvents[i].ibkr_con = optionEvents[j].ibkr_con
                /\ optionEvents[i].event_type = optionEvents[j].event_type
                /\ optionEvents[i].event_ts = optionEvents[j].event_ts
                /\ optionEvents[i].qty = optionEvents[j].qty ) => i = j

\* C17 as claimed: concurrent runs of either sync leave what a single run
\* leaves, without a duplicate fill and without a duplicate option event.
ConcurrentSyncsAsOne ==
    ConcurrentExecutionSyncsAsOne /\ ConcurrentOptionEventSyncsAsOne

---------------------------------------------------------------------------
(* Properties of run_strategy_instance as advice only *)

\* C18: every step of run_strategy_instance, whatever the strategy returns or
\* raises and whichever value the persistence flag has, leaves the Order,
\* Execution, Position, OptionEvent and AccountSnapshot rows (and the
\* instruments and contracts) as they are; with persistence not requested it
\* leaves the Recommendation rows as they are too.
RunWritesAdviceOnlyStep ==
    call' # call =>
        /\ UNCHANGED <<instruments, contracts, positions, orders, executions,
                       optionEvents, snapshots>>
        /\ ~ call'.persist_recommendations => UNCHANGED recs

---------------------------------------------------------------------------
(* Properties of the strategy registry *)

\* The reference has the form module:name, the module can be loaded and
\* defines the name.
Resolves(code_ref) ==
    /\ HasColon(code_ref)
    /\ SplitCodeRef(code_ref)[1] \in DOMAIN Modules
    /\ SplitCodeRef(code_ref)[2] \in Modules[SplitCodeRef(code_ref)[1]]

\* C19 as claimed: get_registered_strategy raises ImproperlyConfigured for
\* every code reference that does not resolve, and list_registered_strategies
\* returns, in table order, exactly the versions whose reference resolves.
RegistryFailuresAreConfigurationErrors ==
    /\ (called.fn = "get_registered_strategy" /\ ~ Resolves(called.code_ref)) =>
          /\ ~ called.result.ok
          /\ called.result.exc.type = "ImproperlyConfigured"
    /\ called.fn = "list_registered_strategies" =>
          /\ called.result.ok
          /\ LET good == SelectSeq([i \in 1..Len(called.versions) |-> i],
                                   LAMBDA i : Resolves(called.versions[i]))
             IN /\ Len(called.result.registered) = Len(good)
                /\ \A k \in 1..Len(good) : called.result.registered[k].version = good[k]

---------------------------------------------------------------------------
(* Properties of the config validator *)

\* A value is of a primitive type of the schema language: a boolean is
\* neither an integer nor a number.
HasPrimitiveType(value, declared) ==
    CASE declared = "string" -> value = "str"
      [] declared = "boolean" -> value = "bool"
      [] declared = "number" -> value \in {"int", "float"}
      [] declared = "integer" -> value = "int"
      [] declared = "array" -> value = "list"

\* The violations of an object schema by a config: not an object; else the
\* required names that are missing, the declared keys that hold a value of
\* another type, and, when additionalProperties is false, the undeclared keys.
SchemaViolations(config, schema) ==
    IF config.kind # "dict" THEN {<<"object">>}
    ELSE {<<"required", schema.required[i]>> :
             i \in {k \in 1..Len(schema.required) : ~ InConfig(config, schema.required[k])}}
         \cup
         {<<"type", config.items[i][1]>> :
             i \in {k \in 1..Len(config.items) :
                      /\ config.items[k][1] \in DOMAIN schema.properties
                      /\ schema.properties[config.items[k][1]] # Absent
                      /\ ~ HasPrimitiveType(config.items[k][2],
                                            schema.properties[config.items[k][1]])}}
         \cup
         {<<"additional", config.items[i][1]>> :
             i \in {k \in 1..Len(config.items) :
                      /\ schema.additionalProperties = "False"
                      /\ config.items[k][1] \notin DOMAIN schema.properties}}

\* C20 as claimed: on an object schema the validator returns the empty list
\* exactly when the config violates nothing, and one message for each
\* violation.
ValidatorMatchesSchema ==
    (called.fn = "validate_config_against_schema" /\ called.schema.type = "object") =>
        /\ called.result = <<>> <=> SchemaViolations(called.config, called.schema) = {}
        /\ Len(called.result) = Cardinality(SchemaViolations(called.config, called.schema))

---------------------------------------------------------------------------
(* Properties of build_strategy_context *)

\* A context has been built for an instance with a portfolio and an account.
ContextBuilt == called.fn = "build_strategy_context" /\ called.result.ok

\* The snapshot rows of the account of the context.
OwnSnapshots ==
    {i \in 1..Len(snapshots) :
        snapshots[i].broker_account = PortfolioAccount(InstancePortfolio(called.instance))}

\* C21: the four balance fields of a context are those of the snapshot with
\* the greatest as-of among the snapshots of the instance's own broker
\* account, and all zero when that account has no snapshot, whatever
\* snapshots other accounts have.
ContextBalancesFromLatestSnapshot ==
    ContextBuilt =>
        IF OwnSnapshots = {}
        THEN /\ called.result.cash = "0" /\ called.result.buying_power = "0"
             /\ called.result.maintenance_margin = "0" /\ called.result.used_margin = "0"
        ELSE \E i \in OwnSnapshots :
                /\ \A j \in OwnSnapshots : snapshots[j].asof_ts <= snapshots[i].asof_ts
                /\ called.result.cash = snapshots[i].cash
                /\ called.result.buying_power = snapshots[i].buying_power
                /\ called.result.maintenance_margin = snapshots[i].maintenance_margin
                /\ called.result.used_margin = snapshots[i].used_margin

\* A context built for an instance of account U1 while U1 has two snapshots,
\* the later one stored first, and U2 has a snapshot later than both.
ContextBalancesFromLatestSnapshotWitness ==
    /\ ContextBuilt
    /\ PortfolioAccount(InstancePortfolio(called.instance)) = "U1"
    /\ \E i, j, k \in 1..Len(snapshots) :
          /\ i < j
          /\ snapshots[i].broker_account = "U1" /\ snapshots[j].broker_account = "U1"
          /\ snapshots[i].asof_ts > snapshots[j].asof_ts
          /\ snapshots[k].broker_account = "U2"
          /\ snapshots[k].asof_ts > snapshots[i].asof_ts

---------------------------------------------------------------------------
(* Properties of the safety limit filter: aggregate notional *)

\* C22: the actions returned by apply_safety_limits never have an aggregate
\* notional, the sum of their parsable notional parameters, above
\* limits.max_total_notional.
ReturnedNotionalWithinLimit ==
    (called.fn = "apply_safety_limits" /\ "max_total_notional" \in DOMAIN called.limits) =>
        SumNotional(called.result) <= called.limits.max_total_notional

---------------------------------------------------------------------------
(* Properties of run_strategy_instance: what is persisted *)

\* The Recommendation rows the current call has created.
RowsOfCall == SubSeq(recs, call.recs_before + 1, Len(recs))

\* The actions of the current call that survive the safety limits of the
\* instance's safety configuration.
Survivors == ApplySafetyLimits(call.actions, SafetyConfig(call.instance))

---------------------------------------------------------------------------
(* Properties of the trade sync jobs: a fill and its order *)

\* The Order row of the account that a fill record names is stored.
OrderKnown(ba, ed) ==
    /\ ed.ibkr_order_id # None
    /\ \E j \in 1..Len(orders) : /\ orders[j].broker_account = ba
                                 /\ orders[j].ibkr_order_id = ed.ibkr_order_id

\* The Execution rows of a table that carry a fill id.
RowsOfFill(rows, exec_id) == {j \in 1..Len(rows) : rows[j].ibkr_exec_id = exec_id}

\* An execution sync of a connected account never raises.  A fill that was
\* stored stays as it was.  A fill that was not stored and whose order is not
\* stored for the account is skipped: no row, counted as skipped.  A fill that
\* was not stored and whose order is stored gets exactly one row, tied to that
\* order.  The run reports the new rows as created and every other record it
\* looked at as skipped.
FillFollowsOrderStep ==
    (last'.op = "sync_executions" /\ BrokerSupported(last'.acct)) =>
        LET ba == last'.acct
            seen == Seen(last')
            stored(ed) == RowsOfFill(executions, ed.ibkr_exec_id) # {}
            resolvable(ed) == \E k \in 1..Len(seen) :
                                  /\ seen[k].ibkr_exec_id = ed.ibkr_exec_id
                                  /\ OrderKnown(ba, seen[k])
            after(ed) == RowsOfFill(executions', ed.ibkr_exec_id)
            inserted == {seen[i].ibkr_exec_id : i \in {k \in 1..Len(seen) :
                             ~ stored(seen[k]) /\ resolvable(seen[k])}}
        IN /\ last'.ok /\ last'.err = None
           /\ SubSeq(executions', 1, Len(executions)) = executions
           /\ last'.created = Cardinality(inserted)
           /\ last'.other = Len(seen) - Cardinality(inserted)
           /\ \A i \in 1..Len(seen) :
                 LET ed == seen[i]
                 IN /\ stored(ed) => after(ed) = RowsOfFill(executions, ed.ibkr_exec_id)
                    /\ (~ stored(ed) /\ ~ resolvable(ed)) => after(ed) = {}
                    /\ (~ stored(ed) /\ resolvable(ed)) =>
                          /\ Cardinality(after(ed)) = 1
                          /\ \A j \in after(ed) :
                                /\ orders[executions'[j].order].broker_account = ba
                                /\ \E k \in 1..Len(seen) :
                                      /\ seen[k].ibkr_exec_id = ed.ibkr_exec_id
                                      /\ orders[executions'[j].order].ibkr_order_id
                                            = seen[k].ibkr_order_id

\* C24: an execution sync that meets a fill whose order is not stored yet
\* skips the fill, counted as skipped and without error; once the order sync
\* has created the order, the next execution sync inserts the fill exactly
\* once, and later runs skip it as existing.
FillInsertedOnceOrderKnown == []ExecutionIdUnique /\ [][FillFollowsOrderStep]_vars

\* An execution sync of U1 that skips fill e1 as existing: e1 is stored, tied
\* to the order of U1, which was created after an earlier run skipped a fill.
FillInsertedOnceOrderKnownWitness ==
    /\ last.op = "sync_executions" /\ last.acct = "U1" /\ last.ok
    /\ last.created = 0 /\ last.other = 1
    /\ Len(Seen(last)) = 1 /\ Seen(last)[1].ibkr_exec_id = "e1"
    /\ Len(executions) = 1
    /\ executions[1].ibkr_exec_id = "e1"
    /\ orders[executions[1].order].broker_account = "U1"

---------------------------------------------------------------------------
(* Properties of the option-event sync next to other jobs *)

\* C25: option-event sync stays idempotent whatever other jobs run between
\* two of its runs: an event ingested while its contract record does not
\* exist gets no second row when the event is reported again after a position
\* sync has created the contract record.  Every event of OptionEventDataSet
\* reports the same contract id, so an account never holds two rows of one
\* kind, timestamp and quantity.
OptionEventOnceAcrossJobs ==
    \A i, j \in 1..Len(optionEvents) :
        i # j => ~ (/\ optionEvents[i].broker_account = optionEvents[j].broker_account
                    /\ optionEvents[i].event_type = optionEvents[j].event_type
                    /\ optionEvents[i].event_ts = optionEvents[j].event_ts
                    /\ optionEvents[i].qty = optionEvents[j].qty)

---------------------------------------------------------------------------
(* Properties of the sync jobs: rows that existed before a run *)

\* The jobs that the claim says only insert.
InsertOnlyJobs ==
    {"sync_account_snapshot", "sync_positions", "sync_executions", "sync_option_events"}

\* Every row of a table is where and what it was.
Kept(before, after) ==
    /\ Len(after) >= Len(before)
    /\ SubSeq(after, 1, Len(before)) = before

\* Every table but the contract table keeps its rows.
OtherTablesKept ==
    /\ Kept(instruments, instruments') /\ Kept(positions, positions')
    /\ Kept(orders, orders') /\ Kept(executions, executions')
    /\ Kept(optionEvents, optionEvents') /\ Kept(snapshots, snapshots')

\* An order sync leaves every table but Order as it was and deletes no order:
\* the row of every key stays in its place.
OrderSyncFrame ==
    last'.op = "sync_orders" =>
        /\ UNCHANGED <<instruments, contracts, positions, executions, optionEvents, snapshots>>
        /\ Len(orders') >= Len(orders)
        /\ \A i \in 1..Len(orders) :
              /\ orders'[i].broker_account = orders[i].broker_account
              /\ orders'[i].ibkr_order_id = orders[i].ibkr_order_id

\* C26 as claimed: a snapshot, position, execution or option-event sync only
\* inserts rows; no row of any entity that existed before the run, Instrument
\* and broker-contract records included, is modified or deleted by it.
InsertOnlyStep ==
    last'.op \in InsertOnlyJobs => (OtherTablesKept /\ Kept(contracts, contracts'))

SyncJobsInsertOnly == [][InsertOnlyStep]_vars

\* C26 amended: a snapshot, position, execution or option-event sync modifies
\* and deletes no existing row, with one exception: a position sync points an
\* existing broker-contract record to the Instrument of the position reported
\* for its contract id when the record names another Instrument; no other
\* field of the record changes.  Order sync changes existing Order rows only.
InsertOrRealignStep ==
    /\ OrderSyncFrame
    /\ last'.op \in InsertOnlyJobs =>
          /\ OtherTablesKept
          /\ Len(contracts') >= Len(contracts)
          /\ \A i \in 1..Len(contracts) :
                \/ contracts'[i] = contracts[i]
                \/ /\ last'.op = "sync_positions" /\ last'.ok
                   /\ contracts'[i] = [contracts[i] EXCEPT !.instrument = contracts'[i].instrument]
                   /\ \E k \in 1..Len(last'.batch) :
                         LET pd == last'.batch[k]
                             inst == instruments'[contracts'[i].instrument]
                         IN /\ pd.con_id = contracts[i].con_id
                            /\ inst.symbol = pd.symbol
                            /\ inst.exchange = (IF pd.exchange = None THEN "" ELSE pd.exchange)

SyncJobsInsertOrRealign == [][InsertOrRealignStep]_vars

\* A position sync has just run, and a Position row stored earlier names a
\* contract record that now points to another Instrument than the row does.
SyncJobsInsertOrRealignWitness ==
    /\ last.op = "sync_positions" /\ last.ok
    /\ \E p \in 1..Len(positions), c \in 1..Len(contracts) :
          /\ positions[p].ibkr_con = contracts[c].con_id
          /\ positions[p].instrument # contracts[c].instrument

---------------------------------------------------------------------------
(* Properties of build_strategy_context: whose rows a context holds *)

\* The broker account of the instance of the context.
OwnAccount == PortfolioAccount(InstancePortfolio(called.instance))

\* C27: every position, open order and recent execution of a context belongs
\* to the broker account and portfolio of the instance, also when the same
\* client owns other broker accounts with orders and fills of their own.
ContextHoldsOwnRowsOnly ==
    ContextBuilt =>
        /\ \A i \in 1..Len(called.result.positions) :
              /\ called.result.positions[i].broker_account = OwnAccount
              /\ called.result.positions[i].portfolio = InstancePortfolio(called.instance)
        /\ \A i \in 1..Len(called.result.open_orders) :
              called.result.open_orders[i].broker_account = OwnAccount
        /\ \A i \in 1..Len(called.result.recent_executions) :
              orders[called.result.recent_executions[i].order].broker_account = OwnAccount

\* The statuses after which an order is no longer open.
TerminalStatuses == {"Filled", "Cancelled"}

\* C28: once an order sync has moved an order to a terminal status, no context
\* built afterwards lists the order in open_orders, while every order of the
\* account in a non-terminal status is listed: open_orders is the list of the
\* account's Order rows whose status is not terminal.
OpenOrdersAreTheNonTerminal ==
    ContextBuilt =>
        called.result.open_orders =
            SelectSeq(orders, LAMBDA r : /\ r.broker_account = OwnAccount
                                         /\ r.status \notin TerminalStatuses)

\* A context built for an instance of U1 after order o1 of U1 was created as
\* submitted and then moved to cancelled (updated later than created), while
\* o2 of U1 is submitted and o1 of U2 is submitted: o2 of U1 alone is listed.
OpenOrdersAreTheNonTerminalWitness ==
    /\ ContextBuilt /\ OwnAccount = "U1"
    /\ \E i, j, k \in 1..Len(orders) :
          /\ orders[i].broker_account = "U1" /\ orders[i].ibkr_order_id = "o1"
          /\ orders[i].status = "Cancelled" /\ orders[i].updated_ts > orders[i].created_ts
          /\ orders[j].broker_account = "U1" /\ orders[j].ibkr_order_id = "o2"
          /\ orders[j].status = "Submitted"
          /\ orders[k].broker_account = "U2" /\ orders[k].status = "Submitted"
          /\ called.result.open_orders = <<orders[j]>>

---------------------------------------------------------------------------
(* Properties of run_strategy_instance: the run record of every invocation *)

\* C29: every invocation of run_strategy_instance leaves exactly one new
\* StrategyRun row: the row is created in_progress before the implementation
\* is resolved, so an invocation whose code reference cannot be resolved also
\* leaves a run record, in status error.
EveryInvocationLeavesOneRun ==
    /\ call.pc \in {"returned", "raised"} =>
          /\ Len(runs) = call.runs_before + 1
          /\ runs[Len(runs)].strategy_instance = call.instance
    /\ call.pc = "raised" => runs[Len(runs)].status = "error"

---------------------------------------------------------------------------
(* Properties of the run_strategies command *)

====
